---- MODULE Spec2Model ----
(***************************************************************************)
(* Movement detection, result matching, dashboard aggregation, dashboard   *)
(* cache and correlation analysis of prop_line_analysis.                   *)
(*                                                                         *)
(* Units.  Lines and absolute thresholds are Numeric(6,1) values and are   *)
(* held in tenths (52.5 is 525).  Percent thresholds are whole percents.   *)
(* A percentage computed in memory is an exact quotient and is held as a   *)
(* pair <<n, d>> with d > 0; a percentage stored in a Numeric(6,2) column  *)
(* is held in hundredths of a percent.  Detection times are minutes        *)
(* relative to the first kickoff; hours_before_kickoff is held in          *)
(* hundredths of an hour.  An optional value is <<>> (None / NULL) or <<v>>.*)
(***************************************************************************)
EXTENDS Integers, Sequences, FiniteSets, TLC

VARIABLES
    \* --- one detector call (LineMovementDetector.detect_late_movement)
    dSnapshots,     \* the series handed to the detector, ordered by snapshot_time
    dArgs,          \* the arguments __init__ was called with, <<>> before
    dDetector,      \* the detector's thresholds after __init__, <<>> before
    dCommence,      \* game_commence_time of the last call
    dResult         \* the last call's return value: <<>> or <<movement>>

VARIABLES
    \* --- batch detection runs (run_detection) over the database
    bSnapshots,     \* table prop_line_snapshots (a set of rows)
    bStats,         \* table player_game_stats (rows in id order)
    bMovements,     \* table line_movements (rows in id order)
    bRun            \* the last run_detection call: its batch and how it ended

VARIABLES
    \* --- correlation analysis (CorrelationAnalyzer.run_analysis)
    aMovements,     \* table line_movements as the analyzer reads it (a set of rows)
    aRun,           \* the last run_analysis call: its arguments, groups and result
    aRates          \* the last calculate_over_under_rates call: its group and what it returned

VARIABLES
    \* --- dashboard aggregation of one (player, prop, event) group
    wSnapshots,     \* the group's snapshots, ordered by snapshot_time
    wItem           \* the group's dashboard item: <<>> before the computation and
                    \* when none is added, else <<item>>

dvars == <<dSnapshots, dArgs, dDetector, dCommence, dResult>>

bvars == <<bSnapshots, bStats, bMovements, bRun>>

avars == <<aMovements, aRun, aRates>>

VARIABLES
    \* --- the dashboard cache, its readers and the scrape job (one event loop)
    cCache,         \* _dashboard_cache
    cClock,         \* time.time(), in seconds
    cStored,        \* the number of snapshot batches committed so far
    cInvalidations, \* the number of invalidate_dashboard_cache calls so far
    cReaders,       \* per reader: its dashboard call and what it was answered
    cJob            \* the position of scrape_all_props

VARIABLES
    \* --- stored analysis results and the conclusions drawn from them
    rResults,       \* table analysis_results (rows in id order)
    rLast,          \* the run_analysis calls of the last sweep that returned a result
    rReport,        \* the conclusion of the last text report, <<>> before it
    rSummary        \* the conclusion of the last thesis summary, <<>> before it

VARIABLES
    \* --- the websocket clients and one broadcast (api/main.py)
    active_websockets, \* the module's set of connected websockets
    kOpened,        \* the websockets /ws/dashboard has accepted so far
    kPc,            \* the position of broadcast_dashboard_update
    kIterator,      \* the iterator of the loop over active_websockets
    kCurrent,       \* the websocket whose send_json is awaited, <<>> when none
    disconnected,   \* the broadcast's set of websockets whose send failed
    kSent,          \* the websockets whose send succeeded (successful counts them)
    kStable         \* the websockets connected since the broadcast began

wvars == <<wSnapshots, wItem>>

kvars == <<active_websockets, kOpened, kPc, kIterator, kCurrent, disconnected, kSent, kStable>>

rvars == <<rResults, rLast, rReport, rSummary>>

cvars == <<cCache, cClock, cStored, cInvalidations, cReaders, cJob>>

vars == <<dSnapshots, dArgs, dDetector, dCommence, dResult,
          bSnapshots, bStats, bMovements, bRun,
          aMovements, aRun, aRates,
          wSnapshots, wItem,
          cCache, cClock, cStored, cInvalidations, cReaders, cJob,
          rResults, rLast, rReport, rSummary,
          active_websockets, kOpened, kPc, kIterator, kCurrent, disconnected, kSent, kStable>>

\* what the actions of one part leave alone
NotDetect == <<bvars, avars, wvars, cvars, rvars, kvars>>

NotBatch == <<dvars, avars, wvars, cvars, rvars, kvars>>

NotAnalysis == <<dvars, bvars, wvars, cvars, rvars, kvars>>

NotDash == <<dvars, bvars, avars, cvars, rvars, kvars>>

NotCache == <<dvars, bvars, avars, wvars, rvars, kvars>>

NotResults == <<dvars, bvars, wvars, cvars, kvars>>

NotBroadcast == <<dvars, bvars, avars, wvars, cvars, rvars>>

----------------------------------------------------------------------------
\* Optional values

None == <<>>

Some(v) == <<v>>

IsNone(o) == o = <<>>

Val(o) == o[1]

\* n / d rounded to the nearest integer, halves away from zero (d > 0)
RoundDiv(n, d) ==
    IF n >= 0 THEN (2 * n + d) \div (2 * d)
    ELSE -((2 * (-n) + d) \div (2 * d))

----------------------------------------------------------------------------
\* Settings (src/config.py)

DefaultThresholdPct == 10

DefaultThresholdAbs == 50

DefaultHoursBefore == 3

RUSHING_YARDS == "rushing_yards"

RECEIVING_YARDS == "receiving_yards"

----------------------------------------------------------------------------
\* LineMovementDetector

\* `x or default`: None and 0 are both falsy
OrDefault(arg, default) ==
    IF IsNone(arg) \/ Val(arg) = 0 THEN default ELSE Val(arg)

NewDetector(threshold_pct, threshold_abs, hours_before) ==
    [threshold_pct |-> OrDefault(threshold_pct, DefaultThresholdPct),
     threshold_abs |-> OrDefault(threshold_abs, DefaultThresholdAbs),
     hours_before  |-> OrDefault(hours_before, DefaultHoursBefore)]

\* (absolute, pct); pct = absolute / initial * 100 as the quotient <<n, d>>, d > 0
calculate_movement(initial_line, final_line) ==
    LET absolute == final_line - initial_line
    IN  [absolute |-> absolute,
         pct |-> IF initial_line > 0 THEN <<absolute * 100, initial_line>>
                 ELSE IF initial_line < 0 THEN <<-(absolute * 100), -initial_line>>
                 ELSE <<0, 1>>]

\* q <= -t for the quotient q = <<n, d>>
PctAtMostMinus(q, t) == q[1] <= -(t * q[2])

is_significant_movement_conjunctive(self, movement_abs, movement_pct) ==
    /\ movement_abs <= -self.threshold_abs
    /\ PctAtMostMinus(movement_pct, self.threshold_pct)

is_significant_movement(self, movement_abs, movement_pct) ==
    \/ movement_abs <= -self.threshold_abs
    \/ PctAtMostMinus(movement_pct, self.threshold_pct)

EndpointsEarliest(self, snapshots, game_commence_time) ==
    [early |-> snapshots[1], late |-> snapshots[Len(snapshots)]]

\* the (baseline, comparison) snapshots the detector reads
Endpoints(self, snapshots, game_commence_time) ==
    LET late_cutoff == game_commence_time - self.hours_before * 60
        IsEarly(s) == s.snapshot_time < late_cutoff
        IsLate(s) == s.snapshot_time >= late_cutoff
        early_snapshots == SelectSeq(snapshots, IsEarly)
        late_snapshots == SelectSeq(snapshots, IsLate)
    IN  IF early_snapshots = <<>> \/ late_snapshots = <<>>
        THEN [early |-> snapshots[1], late |-> snapshots[Len(snapshots)]]
        ELSE [early |-> early_snapshots[Len(early_snapshots)],
              late |-> late_snapshots[Len(late_snapshots)]]

detect_late_movement_single(self, snapshots, game_commence_time) ==
    IF Len(snapshots) < 1 THEN None
    ELSE
    LET ends == Endpoints(self, snapshots, game_commence_time)
        initial_line == ends.early.consensus_line
        final_line == ends.late.consensus_line
    IN  IF IsNone(initial_line) \/ IsNone(final_line) THEN None
        ELSE
        LET mv == calculate_movement(Val(initial_line), Val(final_line))
        IN  IF ~is_significant_movement(self, mv.absolute, mv.pct) THEN None
            ELSE Some(
              [event_id |-> snapshots[1].event_id,
               player_name |-> snapshots[1].player_name,
               prop_type |-> snapshots[1].prop_type,
               initial_line |-> Val(initial_line),
               final_line |-> Val(final_line),
               initial_snapshot_time |-> ends.early.snapshot_time,
               final_snapshot_time |-> ends.late.snapshot_time,
               movement_absolute |-> mv.absolute,
               movement_pct |-> mv.pct,
               hours_before_kickoff |->
                   RoundDiv((game_commence_time - ends.late.snapshot_time) * 100, 60),
               game_commence_time |-> game_commence_time])

detect_late_movement_null_as_zero(self, snapshots, game_commence_time) ==
    IF Len(snapshots) < 2 THEN None
    ELSE
    LET ends == Endpoints(self, snapshots, game_commence_time)
        initial_line == IF IsNone(ends.early.consensus_line) THEN 0
                        ELSE Val(ends.early.consensus_line)
        final_line == IF IsNone(ends.late.consensus_line) THEN 0
                      ELSE Val(ends.late.consensus_line)
        mv == calculate_movement(initial_line, final_line)
    IN  IF ~is_significant_movement(self, mv.absolute, mv.pct) THEN None
        ELSE Some(
          [event_id |-> snapshots[1].event_id,
           player_name |-> snapshots[1].player_name,
           prop_type |-> snapshots[1].prop_type,
           initial_line |-> initial_line,
           final_line |-> final_line,
           initial_snapshot_time |-> ends.early.snapshot_time,
           final_snapshot_time |-> ends.late.snapshot_time,
           movement_absolute |-> mv.absolute,
           movement_pct |-> mv.pct,
           hours_before_kickoff |->
               RoundDiv((game_commence_time - ends.late.snapshot_time) * 100, 60),
           game_commence_time |-> game_commence_time])

detect_late_movement(self, snapshots, game_commence_time) ==
    IF Len(snapshots) < 2 THEN None
    ELSE
    LET ends == Endpoints(self, snapshots, game_commence_time)
        initial_line == ends.early.consensus_line
        final_line == ends.late.consensus_line
    IN  IF IsNone(initial_line) \/ IsNone(final_line) THEN None
        ELSE
        LET mv == calculate_movement(Val(initial_line), Val(final_line))
        IN  IF ~is_significant_movement(self, mv.absolute, mv.pct) THEN None
            ELSE Some(
              [event_id |-> snapshots[1].event_id,
               player_name |-> snapshots[1].player_name,
               prop_type |-> snapshots[1].prop_type,
               initial_line |-> Val(initial_line),
               final_line |-> Val(final_line),
               initial_snapshot_time |-> ends.early.snapshot_time,
               final_snapshot_time |-> ends.late.snapshot_time,
               movement_absolute |-> mv.absolute,
               movement_pct |-> mv.pct,
               hours_before_kickoff |->
                   RoundDiv((game_commence_time - ends.late.snapshot_time) * 100, 60),
               game_commence_time |-> game_commence_time])

----------------------------------------------------------------------------
\* One series, one detector call

\* observation times (minutes; the first kickoff is 0) and consensus lines (tenths)
SnapshotTimes == {-360, -240, -120, -30}

ConsensusLines == {None, Some(-100), Some(0), Some(460), Some(525)}

CommenceTimes == {0, 60}

\* constructor arguments <<threshold_pct, threshold_abs, hours_before>>
DetectorArgs ==
    { <<None, None, None>>, <<Some(10), Some(50), Some(3)>>,
      <<Some(20), Some(100), Some(3)>>, <<Some(0), Some(0), Some(0)>>,
      <<Some(5), Some(30), Some(1)>>, <<Some(-5), Some(50), Some(3)>> }

LastTime(snapshots) ==
    IF snapshots = <<>> THEN -1000 ELSE snapshots[Len(snapshots)].snapshot_time

\* a set iterator: the size of the set when it was made (si_used) and the
\* members it has yet to yield
NoIterator == [used |-> 0, pending |-> {}]

\* _dashboard_cache as the module defines it, and as invalidation resets it
EmptyCache == [data |-> None, timestamp |-> 0, prop_type |-> None, hours_back |-> None]

\* the dashboard requests, numbered in the order of their arrival
Readers == 1..3

IdleReader ==
    [pc |-> "idle", prop_type |-> None, hours_back |-> 0, waiting |-> {},
     result |-> None, computed |-> FALSE, at |-> 0, invalidations |-> 0]

Init ==
    /\ dSnapshots = <<>>
    /\ dArgs = None
    /\ dDetector = None
    /\ dCommence = 0
    /\ dResult = None
    /\ bSnapshots = {}
    /\ bStats = <<>>
    /\ bMovements = <<>>
    /\ bRun = None
    /\ aMovements = {}
    /\ aRun = None
    /\ aRates = None
    /\ wSnapshots = <<>>
    /\ wItem = None
    /\ cCache = EmptyCache
    /\ cClock = 0
    /\ cStored = 0
    /\ cInvalidations = 0
    /\ cReaders = [r \in Readers |-> IdleReader]
    /\ cJob = "idle"
    /\ rResults = <<>>
    /\ rLast = <<>>
    /\ rReport = None
    /\ rSummary = None
    /\ active_websockets = {}
    /\ kOpened = {}
    /\ kPc = "idle"
    /\ kIterator = NoIterator
    /\ kCurrent = None
    /\ disconnected = {}
    /\ kSent = {}
    /\ kStable = {}

\* the collector appends an observation of the series, later than the ones
\* before; what the last detector call returned is for the older series and is dropped
AppendSnapshot(t, line) ==
    /\ t > LastTime(dSnapshots)
    /\ dSnapshots' = Append(dSnapshots,
          [event_id |-> "e1", player_name |-> "p1", prop_type |-> RUSHING_YARDS,
           snapshot_time |-> t, consensus_line |-> line])
    /\ dArgs' = None
    /\ dDetector' = None
    /\ dResult' = None
    /\ UNCHANGED dCommence
    /\ UNCHANGED NotDetect

DetectLateMovement(args, game_commence_time) ==
    LET self == NewDetector(args[1], args[2], args[3])
    IN  /\ dArgs' = Some(args)
        /\ dDetector' = Some(self)
        /\ dCommence' = game_commence_time
        /\ dResult' = detect_late_movement(self, dSnapshots, game_commence_time)
        /\ UNCHANGED dSnapshots
        /\ UNCHANGED NotDetect

DetectNext ==
    \/ \E t \in SnapshotTimes, line \in ConsensusLines : AppendSnapshot(t, line)
    \/ \E args \in DetectorArgs, c \in CommenceTimes : DetectLateMovement(args, c)

SpecDetect == Init /\ [][DetectNext]_vars

\* C1: every movement detect_late_movement emits meets the drop rule of its
\* detector (absolute <= -threshold_abs or percent <= -threshold_pct) and its
\* absolute change, final minus initial consensus line, is never positive.
C1_EmittedIsDrop ==
    ~IsNone(dResult) =>
        LET m == Val(dResult)
            self == Val(dDetector)
        IN  /\ \/ m.movement_absolute <= -self.threshold_abs
               \/ PctAtMostMinus(m.movement_pct, self.threshold_pct)
            /\ m.movement_absolute <= 0

\* the detector was called on the series as it is now
Detected == ~IsNone(dDetector)

\* the cutoff of the late window, and the series' partitions around it
LateCutoff == dCommence - Val(dDetector).hours_before * 60

EarlyPartition == {i \in 1..Len(dSnapshots) : dSnapshots[i].snapshot_time < LateCutoff}

LatePartition == {i \in 1..Len(dSnapshots) : dSnapshots[i].snapshot_time >= LateCutoff}

\* the baseline and comparison points by the rule of endpoint selection
BaselinePoint ==
    IF EarlyPartition # {} /\ LatePartition # {}
    THEN dSnapshots[CHOOSE i \in EarlyPartition : \A j \in EarlyPartition : j <= i]
    ELSE dSnapshots[1]

ComparisonPoint == dSnapshots[Len(dSnapshots)]

\* absolute <= -threshold_abs or percent <= -threshold_pct, where percent is
\* (final - initial) / initial * 100, and 0 when initial is 0
DropRule(initial, final, threshold_pct, threshold_abs) ==
    \/ final - initial <= -threshold_abs
    \/ /\ initial > 0
       /\ (final - initial) * 100 <= -(threshold_pct * initial)
    \/ /\ initial < 0
       /\ (final - initial) * 100 >= -(threshold_pct * initial)
    \/ /\ initial = 0
       /\ 0 <= -threshold_pct

\* Scenario A and B's series: 52.5 six hours and 46.0 half an hour before kickoff
ScenarioSeries ==
    /\ Len(dSnapshots) = 2
    /\ dCommence - dSnapshots[1].snapshot_time = 360
    /\ dCommence - dSnapshots[2].snapshot_time = 30
    /\ dSnapshots[1].consensus_line = Some(525)
    /\ dSnapshots[2].consensus_line = Some(460)

\* C13: when the series has two or more observations and the baseline and
\* comparison points both carry a consensus line, a movement is emitted if
\* and only if the change between the two points meets the drop rule;
\* Scenario A is emitted with absolute -6.5 half an hour before kickoff and
\* Scenario B is not emitted.
C13_EmittedIffDrop ==
    Detected =>
        LET self == Val(dDetector)
        IN  /\ ( /\ Len(dSnapshots) >= 2
                 /\ ~IsNone(BaselinePoint.consensus_line)
                 /\ ~IsNone(ComparisonPoint.consensus_line) )
               => ( ~IsNone(dResult) <=>
                      DropRule(Val(BaselinePoint.consensus_line),
                               Val(ComparisonPoint.consensus_line),
                               self.threshold_pct, self.threshold_abs) )
            /\ ( /\ ScenarioSeries
                 /\ self = [threshold_pct |-> 10, threshold_abs |-> 50, hours_before |-> 3] )
               => /\ ~IsNone(dResult)
                  /\ Val(dResult).movement_absolute = -65
                  /\ Val(dResult).hours_before_kickoff = 50
            /\ ( /\ ScenarioSeries
                 /\ self = [threshold_pct |-> 20, threshold_abs |-> 100, hours_before |-> 3] )
               => IsNone(dResult)

\* Scenario A has been detected
C13_Witness ==
    /\ Detected
    /\ ScenarioSeries
    /\ Val(dDetector) = [threshold_pct |-> 10, threshold_abs |-> 50, hours_before |-> 3]
    /\ ~IsNone(dResult)

C15_EmittedIsLate ==
    ~IsNone(dResult) =>
        /\ 0 <= Val(dResult).hours_before_kickoff
        /\ Val(dResult).hours_before_kickoff <= Val(dDetector).hours_before * 100

\* C24: for a series with fewer than two observations, empty or a single
\* snapshot, detect_late_movement returns none, whatever the detector's
\* thresholds.
C24_ShortSeriesNoMovement ==
    (Detected /\ Len(dSnapshots) < 2) => IsNone(dResult)

\* a detector whose percent threshold is satisfied by no change at all was
\* called on a single snapshot with a line
C24_Witness ==
    /\ Detected
    /\ Len(dSnapshots) = 1
    /\ ~IsNone(dSnapshots[1].consensus_line)
    /\ Val(dDetector).threshold_pct < 0
    /\ IsNone(dResult)

\* C23: detect_late_movement returns none whenever the consensus line is null
\* at the baseline or at the comparison point of the series, whatever the
\* lines of the other observations.
C23_NullEndpointNoMovement ==
    ( /\ Detected
      /\ Len(dSnapshots) >= 2
      /\ \/ IsNone(BaselinePoint.consensus_line)
         \/ IsNone(ComparisonPoint.consensus_line) )
        => IsNone(dResult)

\* the comparison point has no line while two earlier observations of the
\* series drop from 52.5 to 46.0, and nothing was emitted
C23_Witness ==
    /\ Detected
    /\ Len(dSnapshots) >= 3
    /\ IsNone(ComparisonPoint.consensus_line)
    /\ ~IsNone(BaselinePoint.consensus_line)
    /\ \E i, j \in 1..(Len(dSnapshots) - 1) :
          /\ i < j
          /\ dSnapshots[i].consensus_line = Some(525)
          /\ dSnapshots[j].consensus_line = Some(460)
    /\ IsNone(dResult)

----------------------------------------------------------------------------
\* Batch detection: detect_all_movements, match_with_results, save_movements

SeqRange(s) == {s[i] : i \in 1..Len(s)}

\* every ordering of a finite set (a query without ORDER BY returns any)
RECURSIVE Orderings(_)
Orderings(S) ==
    IF S = {} THEN {<<>>}
    ELSE UNION {{<<x>> \o rest : rest \in Orderings(S \ {x})} : x \in S}

RECURSIVE SortByTime(_)
SortByTime(rows) ==
    IF rows = {} THEN <<>>
    ELSE LET first == CHOOSE r \in rows :
                         \A o \in rows : r.snapshot_time <= o.snapshot_time
         IN  <<first>> \o SortByTime(rows \ {first})

get_snapshots_for_event(table, event_id, player_name, prop_type) ==
    SortByTime({r \in table : /\ r.event_id = event_id
                              /\ r.player_name = player_name
                              /\ r.prop_type = prop_type})

\* SELECT DISTINCT event_id, player_name, prop_type, game_commence_time
Combinations(table) ==
    {<<r.event_id, r.player_name, r.prop_type, r.game_commence_time>> : r \in table}

NewLineMovement(d) ==
    [event_id |-> d.event_id, player_name |-> d.player_name,
     prop_type |-> d.prop_type,
     initial_line |-> d.initial_line, final_line |-> d.final_line,
     initial_snapshot_time |-> d.initial_snapshot_time,
     final_snapshot_time |-> d.final_snapshot_time,
     movement_absolute |-> d.movement_absolute,
     movement_pct |-> d.movement_pct,
     hours_before_kickoff |-> d.hours_before_kickoff,
     actual_yards |-> None, went_over |-> None, went_under |-> None,
     game_commence_time |-> d.game_commence_time]

RECURSIVE detect_all_movements(_, _, _, _)
detect_all_movements(self, table, combinations, i) ==
    IF i > Len(combinations) THEN <<>>
    ELSE
    LET c == combinations[i]
        snapshots == get_snapshots_for_event(table, c[1], c[2], c[3])
        movement_data == detect_late_movement(self, snapshots, c[4])
        rest == detect_all_movements(self, table, combinations, i + 1)
    IN  IF IsNone(movement_data) THEN rest
        ELSE <<NewLineMovement(Val(movement_data))>> \o rest

\* .first() of the rows for (event_id, player_name): the lowest id
FirstStats(stats, m) ==
    LET hits == {i \in 1..Len(stats) : /\ stats[i].event_id = m.event_id
                                       /\ stats[i].player_name = m.player_name}
    IN  IF hits = {} THEN None
        ELSE Some(stats[CHOOSE i \in hits : \A j \in hits : i <= j])

match_one_push_over(stats, m) ==
    LET found == FirstStats(stats, m)
    IN  IF IsNone(found) THEN m
        ELSE
        LET actual_yards ==
                IF m.prop_type = RUSHING_YARDS THEN Val(found).rushing_yards
                ELSE IF m.prop_type = RECEIVING_YARDS THEN Val(found).receiving_yards
                ELSE None
        IN  IF IsNone(actual_yards) THEN m
            ELSE [m EXCEPT !.actual_yards = actual_yards,
                           !.went_over = Some(Val(actual_yards) * 10 >= m.final_line),
                           !.went_under = Some(Val(actual_yards) * 10 < m.final_line)]

match_one_flags_unmatched(stats, m) ==
    LET found == FirstStats(stats, m)
        actual_yards ==
            IF IsNone(found) THEN None
            ELSE IF m.prop_type = RUSHING_YARDS THEN Val(found).rushing_yards
            ELSE Val(found).receiving_yards
    IN  IF IsNone(actual_yards)
        THEN [m EXCEPT !.went_over = Some(FALSE), !.went_under = Some(FALSE)]
        ELSE [m EXCEPT !.actual_yards = actual_yards,
                       !.went_over = Some(Val(actual_yards) * 10 > m.final_line),
                       !.went_under = Some(Val(actual_yards) * 10 < m.final_line)]

match_one(stats, m) ==
    LET found == FirstStats(stats, m)
    IN  IF IsNone(found) THEN m
        ELSE
        LET actual_yards ==
                IF m.prop_type = RUSHING_YARDS THEN Val(found).rushing_yards
                ELSE IF m.prop_type = RECEIVING_YARDS THEN Val(found).receiving_yards
                ELSE None
        IN  IF IsNone(actual_yards) THEN m
            ELSE [m EXCEPT !.actual_yards = actual_yards,
                           !.went_over = Some(Val(actual_yards) * 10 > m.final_line),
                           !.went_under = Some(Val(actual_yards) * 10 < m.final_line)]

match_with_results(stats, movements) ==
    [i \in 1..Len(movements) |-> match_one(stats, movements[i])]

SameKey(a, b) ==
    /\ a.event_id = b.event_id
    /\ a.player_name = b.player_name
    /\ a.prop_type = b.prop_type

\* the session does not autoflush: a query sees the committed rows only
ExistingIndex(table, movement) ==
    LET hits == {i \in 1..Len(table) : SameKey(table[i], movement)}
    IN  IF hits = {} THEN 0 ELSE CHOOSE i \in hits : \A j \in hits : i <= j

UpdateExisting(existing, movement) ==
    [existing EXCEPT !.initial_line = movement.initial_line,
                     !.final_line = movement.final_line,
                     !.movement_absolute = movement.movement_absolute,
                     !.movement_pct = movement.movement_pct,
                     !.actual_yards = movement.actual_yards,
                     !.went_over = movement.went_over,
                     !.went_under = movement.went_under]

\* the rows as the session holds them after the loop: <<updated table, added>>
RECURSIVE SaveLoop(_, _, _, _)
SaveLoop(table, added, movements, i) ==
    IF i > Len(movements) THEN <<table, added>>
    ELSE
    LET movement == movements[i]
        existing == ExistingIndex(table, movement)
    IN  IF existing > 0
        THEN SaveLoop([table EXCEPT ![existing] = UpdateExisting(@, movement)],
                      added, movements, i + 1)
        ELSE SaveLoop(table, Append(added, movement), movements, i + 1)

\* movement_pct as Numeric(6,2) keeps it: hundredths of a percent
StoredPct(q) == RoundDiv(q[1] * 100, q[2])

Magnitude(n) == IF n < 0 THEN -n ELSE n

\* a value its column cannot hold (Numeric(6,1), Numeric(6,2)): the flush raises
Overflows(row) ==
    \/ Magnitude(row.movement_absolute) >= 100000
    \/ Magnitude(StoredPct(row.movement_pct)) >= 1000000
    \/ Magnitude(row.hours_before_kickoff) >= 1000000

\* <<table after the call, raised>>: commit, or rollback and re-raise
save_movements(table, movements) ==
    IF movements = <<>> THEN <<table, FALSE>>
    ELSE
    LET after == SaveLoop(table, <<>>, movements, 1)
        rows == after[1] \o after[2]
    IN  IF \E i \in 1..Len(rows) : Overflows(rows[i])
        THEN <<table, TRUE>>
        ELSE <<rows, FALSE>>

----------------------------------------------------------------------------
\* The database the batch runs read

\* the rows the collectors may save: <<prop_type, game_commence_time,
\* snapshot_time, consensus_line>> of event e1, player p1
BatchRows ==
    { <<RUSHING_YARDS, 0, -240, Some(525)>>,
      <<RUSHING_YARDS, 0, -120, Some(460)>>,
      <<RUSHING_YARDS, 60, -120, Some(460)>>,
      <<RUSHING_YARDS, 0, -30, Some(1)>>,
      <<RECEIVING_YARDS, 0, -240, Some(1)>>,
      <<RECEIVING_YARDS, 0, -240, Some(525)>>,
      <<RECEIVING_YARDS, 0, -30, Some(-100)>>,
      <<RECEIVING_YARDS, 0, -30, Some(460)>> }

\* the yards of the player's stats row: 40 is under and 46 is equal to a final
\* line of 46.0
BatchRushingYards == {Some(40)}

BatchReceivingYards == {None, Some(46)}

\* thresholds of a run_detection call
RunArgs == { <<Some(10), Some(50), Some(3)>>, <<Some(20), Some(100), Some(1)>> }

\* a collector saves one snapshot row
SaveSnapshot(event_id, player_name, prop_type, commence, t, line) ==
    /\ ~\E r \in bSnapshots : /\ r.event_id = event_id
                              /\ r.player_name = player_name
                              /\ r.prop_type = prop_type
                              /\ r.snapshot_time = t
    /\ bSnapshots' = bSnapshots \cup
          {[event_id |-> event_id, player_name |-> player_name,
            prop_type |-> prop_type, game_commence_time |-> commence,
            snapshot_time |-> t, consensus_line |-> line]}
    /\ UNCHANGED <<bStats, bMovements, bRun>>
    /\ UNCHANGED NotBatch

\* the stats collector saves the player's row of a finished game
SaveStats(event_id, player_name, rushing_yards, receiving_yards) ==
    /\ bStats = <<>>
    /\ bStats' = <<[event_id |-> event_id, player_name |-> player_name,
                    rushing_yards |-> rushing_yards,
                    receiving_yards |-> receiving_yards]>>
    /\ UNCHANGED <<bSnapshots, bMovements, bRun>>
    /\ UNCHANGED NotBatch

run_detection(args, combinations) ==
    LET self == NewDetector(args[1], args[2], args[3])
        detected == detect_all_movements(self, bSnapshots, combinations, 1)
        movements == match_with_results(bStats, detected)
        saved == save_movements(bMovements, movements)
    IN  /\ bMovements' = saved[1]
        /\ bRun' = Some([stats |-> bStats, detected |-> detected,
                         movements |-> movements, raised |-> saved[2]])
        /\ UNCHANGED <<bSnapshots, bStats>>
        /\ UNCHANGED NotBatch

BatchNext ==
    \/ \E row \in BatchRows :
              SaveSnapshot("e1", "p1", row[1], row[2], row[3], row[4])
    \/ \E r \in BatchRushingYards, y \in BatchReceivingYards :
              SaveStats("e1", "p1", r, y)
    \/ \E args \in RunArgs, combinations \in Orderings(Combinations(bSnapshots)) :
              run_detection(args, combinations)

SpecBatch == Init /\ [][BatchNext]_vars

\* C4: after any sequence of non-overlapping detection runs the table
\* line_movements holds at most one row per (event_id, player_name, prop_type).
C4_OneMovementPerKey ==
    \A i, j \in 1..Len(bMovements) :
        SameKey(bMovements[i], bMovements[j]) => i = j

\* a row of the table that holds what the run computed for this movement
Persisted(m) ==
    \E i \in 1..Len(bMovements) :
        /\ SameKey(bMovements[i], m)
        /\ bMovements[i].initial_line = m.initial_line
        /\ bMovements[i].final_line = m.final_line
        /\ bMovements[i].movement_absolute = m.movement_absolute
        /\ bMovements[i].actual_yards = m.actual_yards

\* C8: a failure on one item of a batch run leaves every other item of the
\* batch detected, matched and persisted.
C8_FailureIsolated ==
    ~IsNone(bRun) =>
        \A i \in 1..Len(Val(bRun).movements) :
            ~Overflows(Val(bRun).movements[i]) => Persisted(Val(bRun).movements[i])

\* the movements of the last run, after match_with_results
Matched == IF IsNone(bRun) THEN {} ELSE SeqRange(Val(bRun).movements)

\* C16: after match_with_results went_over and went_under are never both
\* true; for an annotated movement both are false exactly when the actual
\* yards equal final_line, and yards below the line give went_under true and
\* went_over false.
C16_OutcomeFlagsExclusive ==
    \A m \in Matched :
        /\ ~(m.went_over = Some(TRUE) /\ m.went_under = Some(TRUE))
        /\ ~IsNone(m.actual_yards) =>
              /\ ~IsNone(m.went_over) /\ ~IsNone(m.went_under)
              /\ (~Val(m.went_over) /\ ~Val(m.went_under))
                    <=> (Val(m.actual_yards) * 10 = m.final_line)
              /\ Val(m.actual_yards) * 10 < m.final_line
                    => (Val(m.went_under) /\ ~Val(m.went_over))

\* one run matched a push (46 yards on a final line of 46.0) and an under
\* (40 yards on a final line of 46.0, as in Scenario C)
C16_Witness ==
    /\ \E m \in Matched : /\ m.final_line = 460
                          /\ m.actual_yards = Some(46)
                          /\ m.went_over = Some(FALSE)
                          /\ m.went_under = Some(FALSE)
    /\ \E m \in Matched : /\ m.final_line = 460
                          /\ m.actual_yards = Some(40)
                          /\ m.went_under = Some(TRUE)
                          /\ m.went_over = Some(FALSE)

\* the stat the movement's prop type selects in the first stats row of its
\* (event, player), of the rows the run read; <<>> when there is no row or
\* the field is null
SelectedStat(m) ==
    LET stats == Val(bRun).stats
        rows == {i \in 1..Len(stats) : /\ stats[i].event_id = m.event_id
                                       /\ stats[i].player_name = m.player_name}
    IN  IF rows = {} THEN None
        ELSE LET first == stats[CHOOSE i \in rows : \A j \in rows : i <= j]
             IN  IF m.prop_type = RUSHING_YARDS THEN first.rushing_yards
                 ELSE first.receiving_yards

OutcomeFields == {"actual_yards", "went_over", "went_under"}

\* C17: match_with_results changes only actual_yards, went_over and
\* went_under of a movement, and leaves all three null when the movement has
\* no stats row or the stat of its prop type is null.
C17_MatchChangesOutcomeOnly ==
    ~IsNone(bRun) =>
        /\ Len(Val(bRun).movements) = Len(Val(bRun).detected)
        /\ \A i \in 1..Len(Val(bRun).detected) :
              LET before == Val(bRun).detected[i]
                  after == Val(bRun).movements[i]
              IN  /\ DOMAIN after = DOMAIN before
                  /\ \A f \in DOMAIN before \ OutcomeFields : after[f] = before[f]
                  /\ IsNone(SelectedStat(before)) =>
                        /\ IsNone(after.actual_yards)
                        /\ IsNone(after.went_over)
                        /\ IsNone(after.went_under)
                  /\ ~IsNone(SelectedStat(before)) =>
                        after.actual_yards = SelectedStat(before)

\* one run matched a movement with yards and left another, whose stat is
\* null in the stats row, without outcome
C17_Witness ==
    /\ \E m \in Matched : ~IsNone(m.actual_yards)
    /\ \E m \in Matched : /\ IsNone(SelectedStat(m))
                          /\ IsNone(m.actual_yards)
                          /\ IsNone(m.went_over)
                          /\ IsNone(m.went_under)

\* C27: after a run has saved its movements, the stored record of each
\* movement's (event, player, prop) equals the movement the run detected and
\* matched, in every field: lines, changes, outcome, initial_snapshot_time,
\* final_snapshot_time, hours_before_kickoff and game_commence_time.
C27_StoredEqualsDetected ==
    (~IsNone(bRun) /\ ~Val(bRun).raised) =>
        \A i \in 1..Len(Val(bRun).movements) :
            \E k \in 1..Len(bMovements) :
                /\ SameKey(bMovements[k], Val(bRun).movements[i])
                /\ bMovements[k] = Val(bRun).movements[i]

----------------------------------------------------------------------------
\* CorrelationAnalyzer

\* thresholds are compared with the stored Numeric(6,2) percent (hundredths)
\* and the stored Numeric(6,1) absolute change (tenths); `if x:` skips None and 0
\* (an enum member and a datetime are always truthy)
Truthy(arg) == ~IsNone(arg) /\ Val(arg) # 0

HasResults(m) == ~IsNone(m.actual_yards)

get_movements_with_results(table, prop_type, min_movement_pct, min_movement_abs, max_hours_before, start_date, end_date) ==
    {m \in table :
        /\ HasResults(m)
        /\ ~IsNone(prop_type) => m.prop_type = Val(prop_type)
        /\ Truthy(min_movement_pct) => m.movement_pct <= -(Val(min_movement_pct) * 100)
        /\ Truthy(min_movement_abs) => m.movement_absolute <= -Val(min_movement_abs)
        /\ Truthy(max_hours_before) => m.hours_before_kickoff <= Val(max_hours_before) * 100
        /\ ~IsNone(start_date) => m.game_commence_time >= Val(start_date)
        /\ ~IsNone(end_date) => m.game_commence_time <= Val(end_date)}

\* the rows calculate_baseline_rates counts: the thresholds are the settings'
BaselineMovements(table, prop_type, start_date, end_date) ==
    {m \in table :
        /\ HasResults(m)
        /\ ~IsNone(prop_type) => m.prop_type = Val(prop_type)
        /\ ~IsNone(start_date) => m.game_commence_time >= Val(start_date)
        /\ ~IsNone(end_date) => m.game_commence_time <= Val(end_date)
        /\ m.movement_pct > -(DefaultThresholdPct * 100)
        /\ m.movement_absolute > -DefaultThresholdAbs}

calculate_over_under_rates_unguarded(movements) ==
    LET total == Cardinality(movements)
        over_count == Cardinality({m \in movements : m.went_over = Some(TRUE)})
        under_count == Cardinality({m \in movements : m.went_under = Some(TRUE)})
    IN  [total |-> total, over_count |-> over_count, under_count |-> under_count,
         push_count |-> total - over_count - under_count,
         over_rate |-> Some(<<over_count, total>>),
         under_rate |-> Some(<<under_count, total>>)]

\* rates are the quotients <<count, total>>, None for an empty group
calculate_over_under_rates(movements) ==
    LET total == Cardinality(movements)
        over_count == Cardinality({m \in movements : m.went_over = Some(TRUE)})
        under_count == Cardinality({m \in movements : m.went_under = Some(TRUE)})
    IN  IF total = 0
        THEN [total |-> 0, over_count |-> 0, under_count |-> 0, push_count |-> 0,
              over_rate |-> None, under_rate |-> None]
        ELSE [total |-> total, over_count |-> over_count, under_count |-> under_count,
              push_count |-> total - over_count - under_count,
              over_rate |-> Some(<<over_count, total>>),
              under_rate |-> Some(<<under_count, total>>)]

\* the call's record: thresholds in force, the two groups, whether a result came back
run_analysis(table, name, prop_type, movement_threshold_pct, movement_threshold_abs, hours_before_threshold, start_date, end_date) ==
    LET threshold_pct == OrDefault(movement_threshold_pct, DefaultThresholdPct)
        threshold_abs == OrDefault(movement_threshold_abs, DefaultThresholdAbs)
        hours_threshold == OrDefault(hours_before_threshold, DefaultHoursBefore)
        movements == get_movements_with_results(table, prop_type, Some(threshold_pct),
                         Some(threshold_abs), Some(hours_threshold), start_date, end_date)
        test_rates == calculate_over_under_rates(movements)
        call == [analysis_name |-> name, population |-> table, prop_type |-> prop_type,
                 threshold_pct |-> threshold_pct, threshold_abs |-> threshold_abs,
                 hours_threshold |-> hours_threshold,
                 start_date |-> start_date, end_date |-> end_date,
                 test |-> movements, test_rates |-> test_rates]
    IN  IF test_rates.total = 0
        THEN call @@ [returned |-> FALSE, baseline |-> None, baseline_rates |-> None]
        ELSE
        LET baseline == BaselineMovements(table, prop_type, start_date, end_date)
        IN  call @@ [returned |-> TRUE, baseline |-> Some(baseline),
                     baseline_rates |-> Some(calculate_over_under_rates(baseline))]

\* a stored line_movements row: what detection, matching and the columns make of
\* an initial and a final line, a final snapshot hours before kickoff, and a stat
MovementRow(id, prop_type, initial_line, final_line, hours, actual_yards, commence) ==
    LET mv == calculate_movement(initial_line, final_line)
        m == match_one(
                <<[event_id |-> id, player_name |-> "p1",
                   rushing_yards |-> actual_yards, receiving_yards |-> actual_yards]>>,
                [event_id |-> id, player_name |-> "p1", prop_type |-> prop_type,
                 initial_line |-> initial_line, final_line |-> final_line,
                 movement_absolute |-> mv.absolute,
                 movement_pct |-> StoredPct(mv.pct),
                 hours_before_kickoff |-> hours,
                 actual_yards |-> None, went_over |-> None, went_under |-> None,
                 game_commence_time |-> commence])
    IN  m

\* the rows the table may hold (game days 1 and 2)
AnalysisRows ==
    { MovementRow("e1", RUSHING_YARDS, 525, 460, 50, Some(40), 1),
      MovementRow("e2", RUSHING_YARDS, 1000, 940, 100, Some(95), 1),
      MovementRow("e3", RECEIVING_YARDS, 300, 260, 50, Some(20), 1),
      MovementRow("e4", RECEIVING_YARDS, 500, 460, 200, Some(46), 2),
      MovementRow("e5", RUSHING_YARDS, 500, 490, 50, Some(60), 2),
      MovementRow("e6", RUSHING_YARDS, 525, 400, 400, Some(30), 1),
      MovementRow("e7", RECEIVING_YARDS, 525, 460, 50, None, 2) }

\* the sweep of run_thesis_analysis: <<pct, abs (tenths), hours>>
threshold_combinations ==
    { <<5, 30, 3>>, <<10, 50, 3>>, <<15, 70, 3>>, <<10, 50, 1>>, <<10, 50, 6>> }

prop_types == {None, Some(RUSHING_YARDS), Some(RECEIVING_YARDS)}

\* strings that are searched are sequences of characters
DigitChars == <<"0", "1", "2", "3", "4", "5", "6", "7", "8", "9">>

\* str() of a natural number
RECURSIVE IntStr(_)
IntStr(n) == IF n < 10 THEN <<DigitChars[n + 1]>> ELSE IntStr(n \div 10) \o <<DigitChars[(n % 10) + 1]>>

\* str() of a float given in tenths: 50 is "5.0"
FloatStr(tenths) == IntStr(tenths \div 10) \o <<".">> \o IntStr(tenths % 10)

\* PropType.value
PropTypeValue(prop_type) ==
    IF prop_type = RUSHING_YARDS
    THEN <<"r", "u", "s", "h", "i", "n", "g", "_", "y", "a", "r", "d", "s">>
    ELSE <<"r", "e", "c", "e", "i", "v", "i", "n", "g", "_", "y", "a", "r", "d", "s">>

\* f"thesis_{prop_name}_pct{pct}_abs{abs_val}_hrs{hours}" (pct and hours are
\* whole numbers here, abs_val is in tenths)
AnalysisName(prop_type, pct, abs_val, hours) ==
    <<"t", "h", "e", "s", "i", "s", "_">>
        \o (IF IsNone(prop_type) THEN <<"a", "l", "l">> ELSE PropTypeValue(Val(prop_type)))
        \o <<"_", "p", "c", "t">> \o FloatStr(pct * 10)
        \o <<"_", "a", "b", "s">> \o FloatStr(abs_val)
        \o <<"_", "h", "r", "s">> \o FloatStr(hours * 10)

\* date arguments of a direct call
AnalysisDates == {None, Some(2)}

\* detection (or a loader) stores a movement row
InsertMovement(m) ==
    /\ m \notin aMovements
    /\ aMovements' = aMovements \cup {m}
    /\ UNCHANGED <<aRun, aRates>>
    /\ UNCHANGED NotAnalysis

\* one run_analysis call of the sweep
SweepAnalysis(combo, prop_type) ==
    /\ aRun' = Some(run_analysis(aMovements,
                       AnalysisName(prop_type, combo[1], combo[2], combo[3]),
                       prop_type, Some(combo[1]), Some(combo[2]), Some(combo[3]),
                       None, None))
    /\ UNCHANGED <<aMovements, aRates>>
    /\ UNCHANGED NotAnalysis

\* a direct run_analysis call: default thresholds, a date range
DirectAnalysis(prop_type, start_date, end_date) ==
    /\ aRun' = Some(run_analysis(aMovements, <<"d", "i", "r", "e", "c", "t">>, prop_type,
                       None, None, None, start_date, end_date))
    /\ UNCHANGED <<aMovements, aRates>>
    /\ UNCHANGED NotAnalysis

AnalysisNext ==
    \/ \E m \in AnalysisRows : InsertMovement(m)
    \/ \E combo \in threshold_combinations, pt \in prop_types : SweepAnalysis(combo, pt)
    \/ \E pt \in prop_types, sd \in AnalysisDates, ed \in AnalysisDates :
          DirectAnalysis(pt, sd, ed)

SpecAnalysis == Init /\ [][AnalysisNext]_vars

\* the result-annotated rows inside a run's prop-type and date filters
InRunFilters(run) ==
    {m \in run.population :
        /\ HasResults(m)
        /\ ~IsNone(run.prop_type) => m.prop_type = Val(run.prop_type)
        /\ ~IsNone(run.start_date) => m.game_commence_time >= Val(run.start_date)
        /\ ~IsNone(run.end_date) => m.game_commence_time <= Val(run.end_date)}

\* C2: the test group of a run is exactly the result-annotated movements inside
\* the run's prop-type, date and hours filters that meet the disjunctive rule
\* movement_absolute <= -threshold_abs OR movement_pct <= -threshold_pct.
C2_TestGroupDisjunctive ==
    ~IsNone(aRun) =>
        LET run == Val(aRun)
        IN  run.test =
              {m \in InRunFilters(run) :
                  /\ m.hours_before_kickoff <= run.hours_threshold * 100
                  /\ \/ m.movement_absolute <= -run.threshold_abs
                     \/ m.movement_pct <= -(run.threshold_pct * 100)}

\* C9: the baseline group of a run is exactly the result-annotated movements
\* inside the run's prop-type and date filters with movement_pct > -threshold_pct
\* AND movement_absolute > -threshold_abs, for the run's own thresholds.
C9_BaselineUsesRunThresholds ==
    (~IsNone(aRun) /\ Val(aRun).returned) =>
        LET run == Val(aRun)
        IN  Val(run.baseline) =
              {m \in InRunFilters(run) :
                  /\ m.movement_pct > -(run.threshold_pct * 100)
                  /\ m.movement_absolute > -run.threshold_abs}

\* C10: the test group and the baseline group of a run are disjoint, and every
\* result-annotated movement inside the run's filters is in exactly one of them.
C10_GroupsPartition ==
    (~IsNone(aRun) /\ Val(aRun).returned) =>
        LET run == Val(aRun)
        IN  /\ run.test \cap Val(run.baseline) = {}
            /\ {m \in InRunFilters(run) :
                   m.hours_before_kickoff <= run.hours_threshold * 100}
                  \subseteq run.test \cup Val(run.baseline)

\* the string "probe"
ProbeName == <<"p", "r", "o", "b", "e">>

\* C29: a threshold passed explicitly is the threshold used: for every value
\* of threshold_pct, threshold_abs and hours_before the detector was
\* constructed with, 0 included, the detector holds that value, and
\* run_analysis called with the same values puts them in force.
C29_ExplicitThresholdUsed ==
    Detected =>
        LET args == Val(dArgs)
            self == Val(dDetector)
            run == run_analysis({}, ProbeName, None, args[1], args[2], args[3], None, None)
        IN  /\ ~IsNone(args[1]) => /\ self.threshold_pct = Val(args[1])
                                   /\ run.threshold_pct = Val(args[1])
            /\ ~IsNone(args[2]) => /\ self.threshold_abs = Val(args[2])
                                   /\ run.threshold_abs = Val(args[2])
            /\ ~IsNone(args[3]) => /\ self.hours_before = Val(args[3])
                                   /\ run.hours_threshold = Val(args[3])

----------------------------------------------------------------------------
\* calculate_over_under_rates on its own: the Decimal rates it hands back.
\* A Decimal of up to seventeen places is the pair <<hi, lo>> that stands for
\* hi / 10^8 + lo / 10^17.

\* Decimal(str(count / total)): the float quotient (the double nearest to
\* count / total) written with the shortest digits that read back as that
\* double; FloatQuotientRepr[total][count + 1], for groups of up to seven
FloatQuotientRepr ==
    <<
       <<<<0, 0>>, <<100000000, 0>>>>,
       <<<<0, 0>>, <<50000000, 0>>, <<100000000, 0>>>>,
       <<<<0, 0>>, <<33333333, 333333330>>, <<66666666, 666666660>>, <<100000000, 0>>>>,
       <<<<0, 0>>, <<25000000, 0>>, <<50000000, 0>>, <<75000000, 0>>, <<100000000, 0>>>>,
       <<<<0, 0>>, <<20000000, 0>>, <<40000000, 0>>, <<60000000, 0>>, <<80000000, 0>>,
         <<100000000, 0>>>>,
       <<<<0, 0>>, <<16666666, 666666666>>, <<33333333, 333333330>>, <<50000000, 0>>,
         <<66666666, 666666660>>, <<83333333, 333333340>>, <<100000000, 0>>>>,
       <<<<0, 0>>, <<14285714, 285714285>>, <<28571428, 571428570>>, <<42857142, 857142855>>,
         <<57142857, 142857140>>, <<71428571, 428571430>>, <<85714285, 714285710>>,
         <<100000000, 0>>>>
    >>

DecimalOfQuotient(count, total) == FloatQuotientRepr[total][count + 1]

\* a + b <= 1 for two such Decimals
DecimalSumAtMostOne(a, b) ==
    LET low == a[2] + b[2]
        high == a[1] + b[1] + (low \div 1000000000)
    IN  \/ high < 100000000
        \/ high = 100000000 /\ (low % 1000000000) = 0

\* what a caller receives: the counts, and the two rates as Decimals
returned_rates(movements) ==
    LET rates == calculate_over_under_rates(movements)
    IN  [total |-> rates.total, over_count |-> rates.over_count,
         under_count |-> rates.under_count, push_count |-> rates.push_count,
         over_rate |-> IF IsNone(rates.over_rate) THEN None
                       ELSE Some(DecimalOfQuotient(Val(rates.over_rate)[1], Val(rates.over_rate)[2])),
         under_rate |-> IF IsNone(rates.under_rate) THEN None
                        ELSE Some(DecimalOfQuotient(Val(rates.under_rate)[1], Val(rates.under_rate)[2]))]

\* rows of one prop type: five unders, an over, a push and a row without result
RateRows ==
    { MovementRow("r1", RUSHING_YARDS, 525, 460, 50, Some(40), 1),
      MovementRow("r2", RUSHING_YARDS, 525, 460, 50, Some(41), 1),
      MovementRow("r3", RUSHING_YARDS, 525, 460, 50, Some(42), 1),
      MovementRow("r4", RUSHING_YARDS, 525, 460, 50, Some(43), 1),
      MovementRow("r5", RUSHING_YARDS, 525, 460, 50, Some(44), 1),
      MovementRow("r6", RUSHING_YARDS, 525, 460, 50, Some(47), 1),
      MovementRow("r7", RUSHING_YARDS, 500, 460, 50, Some(46), 1),
      MovementRow("r8", RUSHING_YARDS, 525, 460, 50, None, 1) }

\* one calculate_over_under_rates call on a group of result-annotated rows
CalculateRates(movements) ==
    /\ movements \subseteq {m \in aMovements : HasResults(m)}
    /\ aRates' = Some([movements |-> movements, rates |-> returned_rates(movements)])
    /\ UNCHANGED <<aMovements, aRun>>
    /\ UNCHANGED NotAnalysis

RatesNext ==
    \/ \E m \in RateRows : InsertMovement(m)
    \/ \E movements \in SUBSET aMovements : CalculateRates(movements)

SpecRates == Init /\ [][RatesNext]_vars

\* C30: for every group of result-annotated movements the returned counts
\* satisfy over_count + under_count + push_count = total with push_count >= 0;
\* for a non-empty group over_rate is over_count / total and under_rate is
\* under_count / total (to eight places) and over_rate + under_rate <= 1; for
\* an empty group both rates are null and every count is 0.
C30_RatesWithinCounts ==
    ~IsNone(aRates) =>
        LET movements == Val(aRates).movements
            r == Val(aRates).rates
        IN  /\ r.total = Cardinality(movements)
            /\ r.over_count = Cardinality({m \in movements : m.went_over = Some(TRUE)})
            /\ r.under_count = Cardinality({m \in movements : m.went_under = Some(TRUE)})
            /\ r.over_count + r.under_count + r.push_count = r.total
            /\ r.push_count >= 0
            /\ movements = {} => /\ IsNone(r.over_rate) /\ IsNone(r.under_rate)
                                 /\ r.total = 0 /\ r.over_count = 0
                                 /\ r.under_count = 0 /\ r.push_count = 0
            /\ movements # {} =>
                   /\ ~IsNone(r.over_rate) /\ ~IsNone(r.under_rate)
                   /\ Val(r.over_rate)[1] = (r.over_count * 100000000) \div r.total
                   /\ Val(r.under_rate)[1] = (r.under_count * 100000000) \div r.total
                   /\ DecimalSumAtMostOne(Val(r.over_rate), Val(r.under_rate))

\* the same without the bound on the sum
C30_CountsAndRates ==
    ~IsNone(aRates) =>
        LET movements == Val(aRates).movements
            r == Val(aRates).rates
        IN  /\ r.over_count + r.under_count + r.push_count = r.total
            /\ r.push_count >= 0
            /\ movements = {} => IsNone(r.over_rate) /\ IsNone(r.under_rate)
            /\ movements # {} =>
                   /\ Val(r.over_rate)[1] = (r.over_count * 100000000) \div r.total
                   /\ Val(r.under_rate)[1] = (r.under_count * 100000000) \div r.total

----------------------------------------------------------------------------
\* Analysis results: the significance test, the sweep and save_results.
\* chi-square statistics are exact quotients <<n, d>>; a p-value is known by
\* its class: "1.0" (the statistic is 0), "<0.05" (the statistic is above the
\* critical value 3.841459 of one degree of freedom) or ">=0.05".  The
\* confidence interval and the date range of a result are left out.

\* n / d > 3.841459, for 0 <= n and 0 < d
AboveCritical(n, d) ==
    IF n >= 4 * d THEN TRUE
    ELSE IF n <= 3 * d THEN FALSE
    ELSE (n - 3 * d) * 1000000 > 841459 * d

Degenerate == [chi2 |-> <<0, 1>>, p_value |-> "1.0"]

\* expected_under_rate is the quotient <<a, b>>: expected_under is total * a / b
\* and expected_over is total * (b - a) / b, so that the statistic
\* (under - expected_under)^2 / expected_under + (over - expected_over)^2 / expected_over
\* is (under * b - total * a)^2 / (total * a * (b - a))
perform_chi_square_test(observed_under, observed_total, expected_under_rate) ==
    LET a == expected_under_rate[1]
        b == expected_under_rate[2]
        diff == observed_under * b - observed_total * a
        den == observed_total * a * (b - a)
    IN  IF observed_total = 0 \/ a = 0 THEN Degenerate
        ELSE IF observed_total * a = 0 \/ observed_total * (b - a) = 0 THEN Degenerate
        ELSE [chi2 |-> <<diff * diff, den>>,
              p_value |-> IF diff = 0 THEN "1.0"
                          ELSE IF AboveCritical(diff * diff, den) THEN "<0.05"
                          ELSE ">=0.05"]

\* float(baseline_rates["under_rate"] or 0.5): a missing and a zero rate are 0.5
ExpectedUnderRate(baseline_rates) ==
    IF IsNone(baseline_rates.under_rate) THEN <<1, 2>>
    ELSE IF Val(baseline_rates.under_rate)[1] = 0 THEN <<1, 2>>
    ELSE Val(baseline_rates.under_rate)

\* the AnalysisResult run_analysis builds from the two groups' rates
NewAnalysisResult(name, prop_type, threshold_pct, threshold_abs, hours_threshold, test_rates, baseline_rates) ==
    LET test == perform_chi_square_test(test_rates.under_count, test_rates.total,
                                        ExpectedUnderRate(baseline_rates))
    IN  [analysis_name |-> name, prop_type |-> prop_type,
         movement_threshold_pct |-> threshold_pct,
         movement_threshold_abs |-> threshold_abs,
         hours_before_threshold |-> hours_threshold,
         sample_size |-> test_rates.total,
         over_count |-> test_rates.over_count,
         under_count |-> test_rates.under_count,
         push_count |-> test_rates.push_count,
         over_rate |-> test_rates.over_rate,
         under_rate |-> test_rates.under_rate,
         chi_square_statistic |-> test.chi2,
         p_value |-> test.p_value,
         is_significant |-> (test.p_value = "<0.05"),
         baseline_over_rate |-> baseline_rates.over_rate,
         baseline_sample_size |-> baseline_rates.total]

\* the result of a run_analysis call that returned one
ResultOf(call) ==
    NewAnalysisResult(call.analysis_name, call.prop_type, call.threshold_pct,
                      call.threshold_abs, call.hours_threshold,
                      call.test_rates, Val(call.baseline_rates))

\* a rate as Numeric(5, 4) holds it: in ten-thousandths
StoredRate(rate) ==
    IF IsNone(rate) THEN None ELSE Some(RoundDiv(Val(rate)[1] * 10000, Val(rate)[2]))

\* the statistic as Numeric(10, 4) holds it: in ten-thousandths
StoredStatistic(chi2) == RoundDiv(chi2[1] * 10000, chi2[2])

\* the row of analysis_results that holds a result
StoredResult(result) ==
    [result EXCEPT !.over_rate = StoredRate(@),
                   !.under_rate = StoredRate(@),
                   !.baseline_over_rate = StoredRate(@),
                   !.chi_square_statistic = StoredStatistic(@)]

UpdatedKeys ==
    {"sample_size", "over_count", "under_count", "push_count", "over_rate",
     "under_rate", "chi_square_statistic", "p_value", "is_significant",
     "baseline_over_rate", "baseline_sample_size"}

\* the first committed row with the name, 0 when there is none
ExistingResult(table, analysis_name) ==
    LET hits == {i \in 1..Len(table) : table[i].analysis_name = analysis_name}
    IN  IF hits = {} THEN 0 ELSE CHOOSE i \in hits : \A j \in hits : i <= j

save_results_always_add(table, results) ==
    table \o [i \in 1..Len(results) |-> StoredResult(results[i])]

\* the loop of save_results from results[i] on: table holds the committed rows
\* with the updates made so far, added the rows of session.add
RECURSIVE SaveResultsLoop(_, _, _, _)
SaveResultsLoop(table, added, results, i) ==
    IF i > Len(results) THEN table \o added
    ELSE
    LET row == StoredResult(results[i])
        existing == ExistingResult(table, row.analysis_name)
    IN  IF existing # 0
        THEN SaveResultsLoop(
                 [table EXCEPT ![existing] =
                     [key \in DOMAIN row |->
                         IF key \in UpdatedKeys THEN row[key] ELSE table[existing][key]]],
                 added, results, i + 1)
        ELSE SaveResultsLoop(table, Append(added, row), results, i + 1)

save_results(table, results) == SaveResultsLoop(table, <<>>, results, 1)

\* the order of the sweep's two loops
ThresholdOrder == << <<5, 30, 3>>, <<10, 50, 3>>, <<15, 70, 3>>, <<10, 50, 1>>, <<10, 50, 6>> >>

PropTypeOrder == <<None, Some(RUSHING_YARDS), Some(RECEIVING_YARDS)>>

\* the run_analysis calls of run_thesis_analysis that returned a result, in order
run_thesis_analysis(table) ==
    LET Call(k) ==
            LET combo == ThresholdOrder[((k - 1) \div Len(PropTypeOrder)) + 1]
                prop_type == PropTypeOrder[((k - 1) % Len(PropTypeOrder)) + 1]
            IN  run_analysis(table, AnalysisName(prop_type, combo[1], combo[2], combo[3]),
                             prop_type, Some(combo[1]), Some(combo[2]), Some(combo[3]),
                             None, None)
        calls == [k \in 1..(Len(ThresholdOrder) * Len(PropTypeOrder)) |-> Call(k)]
        Returned(call) == call.returned
    IN  SelectSeq(calls, Returned)

ResultsOf(calls) == [i \in 1..Len(calls) |-> ResultOf(calls[i])]

\* run_full_analysis: the sweep, then save_results
RunFullAnalysis ==
    LET calls == run_thesis_analysis(aMovements)
    IN  /\ rLast' = calls
        /\ rResults' = save_results(rResults, ResultsOf(calls))
        /\ UNCHANGED <<rReport, rSummary>>
        /\ UNCHANGED avars
        /\ UNCHANGED NotResults

\* save_results is called once more with the results of the last sweep
SaveResultsAgain ==
    /\ rLast # <<>>
    /\ rResults' = save_results(rResults, ResultsOf(rLast))
    /\ UNCHANGED <<rLast, rReport, rSummary>>
    /\ UNCHANGED avars
    /\ UNCHANGED NotResults

SweepNext ==
    \/ \E m \in AnalysisRows : InsertMovement(m)
    \/ RunFullAnalysis
    \/ SaveResultsAgain

SpecSweep == Init /\ [][SweepNext]_vars

\* the names of the sweep, by parameters
SweepNames ==
    {AnalysisName(prop_type, combo[1], combo[2], combo[3]) :
        prop_type \in prop_types, combo \in threshold_combinations}

\* C18: analysis_results holds at most one row per analysis_name after any
\* sequence of sweeps and saves; the names of a sweep are pairwise distinct and
\* are those of its (prop type, pct, abs, hours) parameters; a save of a stored
\* name updates its row, and saving the last results once more changes nothing.
C18_OneResultPerName ==
    /\ \A i, j \in 1..Len(rResults) :
          rResults[i].analysis_name = rResults[j].analysis_name => i = j
    /\ \A i, j \in 1..Len(rLast) :
          rLast[i].analysis_name = rLast[j].analysis_name => i = j
    /\ \A i \in 1..Len(rLast) :
          /\ rLast[i].analysis_name \in SweepNames
          /\ \E k \in 1..Len(rResults) :
                rResults[k] = StoredResult(ResultOf(rLast[i]))
    /\ Cardinality(SweepNames) =
          Cardinality(prop_types) * Cardinality(threshold_combinations)
    /\ save_results(rResults, ResultsOf(rLast)) = rResults

\* the last sweep has updated a row that an earlier sweep had added: the row
\* stands in the table before a row that precedes it in the order of the sweep
C18_Witness ==
    \E k, j \in 1..Len(rResults) : \E a, b \in 1..Len(rLast) :
        /\ k < j
        /\ b < a
        /\ rLast[a].analysis_name = rResults[k].analysis_name
        /\ rLast[b].analysis_name = rResults[j].analysis_name
        /\ rResults[k] = StoredResult(ResultOf(rLast[a]))
        /\ rResults[k].sample_size >= 2

\* the rates over which the significance test is asked about its short circuits
TestRates == {<<0, 1>>, <<1, 4>>, <<1, 2>>, <<1, 1>>}

\* C20: the significance test returns (chi2 = 0, p = 1.0) for a test sample of
\* zero, for an expected under-rate of zero and for an expected cell of zero;
\* and every result of the last sweep whose baseline group is not empty and has
\* an under-rate of zero has chi_square_statistic 0, p_value 1.0 and is not
\* significant.
C20_DegenerateShortCircuit ==
    /\ \A rate \in TestRates : \A total \in 0..Cardinality(aMovements) : \A under \in 0..total :
          /\ perform_chi_square_test(0, 0, rate) = Degenerate
          /\ perform_chi_square_test(under, total, <<0, 1>>) = Degenerate
          /\ perform_chi_square_test(under, total, <<1, 1>>) = Degenerate
    /\ \A i \in 1..Len(rLast) :
          LET baseline_rates == Val(rLast[i].baseline_rates)
              result == ResultOf(rLast[i])
          IN  (baseline_rates.total > 0 /\ baseline_rates.under_count = 0)
                  => /\ result.chi_square_statistic[1] = 0
                     /\ result.p_value = "1.0"
                     /\ ~result.is_significant

\* the Wilson interval of successes / total: the proportion it is built
\* around and the divisors of the sample size it divides by (the interval's
\* bounds are irrational and are left out); (0.0, 1.0) for an empty sample
calculate_confidence_interval(successes, total) ==
    IF total = 0 THEN [p |-> None, divisors |-> {}]
    ELSE [p |-> Some(<<successes, total>>), divisors |-> {total, 2 * total, 4 * total}]

\* the divisors of the quotients a rates record holds
RateDivisors(rates) ==
    (IF IsNone(rates.over_rate) THEN {} ELSE {Val(rates.over_rate)[2]})
        \cup (IF IsNone(rates.under_rate) THEN {} ELSE {Val(rates.under_rate)[2]})

\* every divisor a run_analysis call has divided by
RunDivisors(run) ==
    RateDivisors(run.test_rates)
        \cup (IF ~run.returned THEN {}
              ELSE LET baseline_rates == Val(run.baseline_rates)
                       test == perform_chi_square_test(run.test_rates.under_count,
                                   run.test_rates.total, ExpectedUnderRate(baseline_rates))
                       interval == calculate_confidence_interval(
                                       run.test_rates.under_count, run.test_rates.total)
                   IN  RateDivisors(baseline_rates) \cup {test.chi2[2]} \cup interval.divisors)

\* C21: a run_analysis call returns none whenever its test group is empty, and
\* no rate, chi-square or confidence-interval computation of the call divides
\* by zero, whatever the population (an empty baseline group included).
C21_EmptyTestGroupReturnsNone ==
    ~IsNone(aRun) =>
        LET run == Val(aRun)
        IN  /\ run.test = {} => ~run.returned
            /\ run.returned => run.test_rates.total > 0
            /\ \A d \in RunDivisors(run) : d > 0
            /\ calculate_confidence_interval(0, 0).divisors = {}

\* a call over a non-empty test group and an empty baseline group returned
C21_Witness ==
    /\ ~IsNone(aRun)
    /\ Val(aRun).returned
    /\ Val(aRun).test # {}
    /\ Val(Val(aRun).baseline) = {}
    /\ IsNone(Val(Val(aRun).baseline_rates).under_rate)

\* a call over an empty test group in a population with results returned none
C21_WitnessEmpty ==
    /\ ~IsNone(aRun)
    /\ ~Val(aRun).returned
    /\ \E m \in Val(aRun).population : HasResults(m)

----------------------------------------------------------------------------
\* The conclusion of the main analysis: get_summary_report and the
\* thesis-summary endpoint.

\* sub in name, of two strings
Contains(name, sub) ==
    \E i \in 1..(Len(name) - Len(sub) + 1) : SubSeq(name, i, i + Len(sub) - 1) = sub

\* the main analysis (10% threshold, 3 hours, all props), by its name
IsMainAnalysis(name) ==
    /\ Contains(name, <<"p", "c", "t", "1", "0">>)
    /\ Contains(name, <<"h", "r", "s", "3">>)
    /\ Contains(name, <<"a", "l", "l">>)

\* the characters of the names, in the order of their codes
Alphabet ==
    <<".", "0", "1", "2", "3", "4", "5", "6", "7", "8", "9", "_",
      "a", "b", "c", "d", "e", "f", "g", "h", "i", "j", "k", "l", "m",
      "n", "o", "p", "q", "r", "s", "t", "u", "v", "w", "x", "y", "z">>

CharCode(ch) == CHOOSE i \in 1..Len(Alphabet) : Alphabet[i] = ch

\* a sorts before b, or is b
RECURSIVE NameOrder(_, _)
NameOrder(a, b) ==
    IF a = <<>> THEN TRUE
    ELSE IF b = <<>> THEN FALSE
    ELSE IF Head(a) # Head(b) THEN CharCode(Head(a)) < CharCode(Head(b))
    ELSE NameOrder(Tail(a), Tail(b))

MainResults(table) == {i \in 1..Len(table) : IsMainAnalysis(table[i].analysis_name)}

\* float(under_rate) * 100 > 55 of a Numeric(5, 4) rate in ten-thousandths:
\* the product of 0.55 and 100 is the float 55.00000000000001, and no other
\* product of a four-digit rate and 100 is on the other side of 55 than the rate
Over55(stored_rate) == stored_rate >= 5500

\* float(under_rate) * 100 > 50: the product of 0.5 and 100 is the float 50.0
Over50(stored_rate) == stored_rate > 5000

\* the branches both functions take on the main result
Conclusion(result) ==
    LET under_rate == Val(result.under_rate)
    IN  IF result.is_significant /\ Over55(under_rate) THEN "SUPPORTED"
        ELSE IF Over50(under_rate) THEN "TREND"
        ELSE "NOT SUPPORTED"

\* get_summary_report: the results in the order of their names, the first
\* main one concluded on
get_summary_report(table) ==
    LET main == MainResults(table)
    IN  IF table = <<>> THEN [conclusion |-> "No analysis results found", result |-> None]
        ELSE IF main = {} THEN [conclusion |-> "main analysis not found", result |-> None]
        ELSE LET first == CHOOSE i \in main : \A j \in main :
                              NameOrder(table[i].analysis_name, table[j].analysis_name)
             IN  [conclusion |-> Conclusion(table[first]), result |-> Some(table[first])]

\* get_thesis_summary: the first main row of the query
get_thesis_summary(table) ==
    LET main == MainResults(table)
    IN  IF main = {} THEN [conclusion |-> "404", result |-> None]
        ELSE LET first == CHOOSE i \in main : \A j \in main : i <= j
             IN  [conclusion |-> Conclusion(table[first]), result |-> Some(table[first])]

\* the rates calculate_over_under_rates gives a group of these counts
RatesOfCounts(total, under_count, push_count) ==
    IF total = 0
    THEN [total |-> 0, over_count |-> 0, under_count |-> 0, push_count |-> 0,
          over_rate |-> None, under_rate |-> None]
    ELSE [total |-> total, over_count |-> total - under_count - push_count,
          under_count |-> under_count, push_count |-> push_count,
          over_rate |-> Some(<<total - under_count - push_count, total>>),
          under_rate |-> Some(<<under_count, total>>)]

\* test groups: <<total, under_count, push_count>>
ReportTestGroups ==
    { <<2, 1, 0>>, <<2, 2, 0>>, <<11, 2, 0>>, <<11, 6, 0>>,
      <<20, 10, 1>>, <<20, 11, 0>>, <<20, 12, 1>> }

\* baseline groups: <<total, under_count, push_count>>
ReportBaselineGroups == { <<0, 0, 0>>, <<4, 2, 0>>, <<10, 1, 1>>, <<10, 9, 0>> }

\* the analyses of the sweep at the default thresholds
ReportPropTypes == {None, Some(RUSHING_YARDS)}

\* run_analysis over groups of the given counts, then save_results
SaveAnalysis(prop_type, test, baseline) ==
    LET result == NewAnalysisResult(
                      AnalysisName(prop_type, DefaultThresholdPct, DefaultThresholdAbs, DefaultHoursBefore),
                      prop_type, DefaultThresholdPct, DefaultThresholdAbs, DefaultHoursBefore,
                      RatesOfCounts(test[1], test[2], test[3]),
                      RatesOfCounts(baseline[1], baseline[2], baseline[3]))
    IN  /\ rResults' = save_results(rResults, <<result>>)
        /\ rReport' = None
        /\ rSummary' = None
        /\ UNCHANGED rLast
        /\ UNCHANGED avars
        /\ UNCHANGED NotResults

GetSummaryReport ==
    /\ rReport' = Some(get_summary_report(rResults))
    /\ UNCHANGED <<rResults, rLast, rSummary>>
    /\ UNCHANGED avars
    /\ UNCHANGED NotResults

GetThesisSummary ==
    /\ rSummary' = Some(get_thesis_summary(rResults))
    /\ UNCHANGED <<rResults, rLast, rReport>>
    /\ UNCHANGED avars
    /\ UNCHANGED NotResults

ReportNext ==
    \/ \E pt \in ReportPropTypes, test \in ReportTestGroups, baseline \in ReportBaselineGroups :
          SaveAnalysis(pt, test, baseline)
    \/ GetSummaryReport
    \/ GetThesisSummary

SpecReport == Init /\ [][ReportNext]_vars

\* the conclusion the rule gives a result: rates in ten-thousandths
RuleConclusion(result) ==
    LET under_rate == Val(result.under_rate)
    IN  IF result.p_value = "<0.05" /\ under_rate > 5500 THEN "SUPPORTED"
        ELSE IF under_rate > 5000 /\ ~result.is_significant THEN "TREND"
        ELSE "NOT SUPPORTED"

\* C19: the conclusion on the main result is SUPPORTED exactly when p < 0.05
\* and under_rate > 0.55, TREND exactly when under_rate > 0.50 and the result
\* is not significant, NOT SUPPORTED otherwise; the report and the endpoint
\* conclude the same on the same result.
C19_ConclusionRule ==
    /\ (~IsNone(rReport) /\ ~IsNone(Val(rReport).result)) =>
          Val(rReport).conclusion = RuleConclusion(Val(Val(rReport).result))
    /\ (~IsNone(rSummary) /\ ~IsNone(Val(rSummary).result)) =>
          Val(rSummary).conclusion = RuleConclusion(Val(Val(rSummary).result))
    /\ (~IsNone(rReport) /\ ~IsNone(rSummary) /\ Val(rReport).result = Val(rSummary).result) =>
          Val(rReport).conclusion = Val(rSummary).conclusion

----------------------------------------------------------------------------
\* get_dashboard_data: the per-sportsbook computation over one group.
\* Times are minutes; a percent is the quotient <<n, d>>.

\* the books tracked (two of the six, which are treated alike)
sportsbooks == {"consensus", "draftkings"}

\* the lookback windows of an item, in minutes; 0 is "Since Open"
Windows == {5, 10, 15, 30, 45, 60, 720, 1440, 0}

NullChange(minutes) ==
    [minutes |-> minutes, absolute |-> None, percent |-> None, old_line |-> None,
     old_over_odds |-> None, old_under_odds |-> None,
     new_over_odds |-> None, new_under_odds |-> None]

\* (current - old) / old * 100 as the quotient <<n, d>>, d > 0; 0 when old is 0
PercentChangeUnguarded(old_line, current_line) ==
    IF old_line < 0 THEN <<-((current_line - old_line) * 100), -old_line>>
    ELSE <<(current_line - old_line) * 100, old_line>>

PercentChange(old_line, current_line) ==
    IF old_line > 0 THEN <<(current_line - old_line) * 100, old_line>>
    ELSE IF old_line < 0 THEN <<-((current_line - old_line) * 100), -old_line>>
    ELSE <<0, 1>>

ChangeFrom(minutes, old, current) ==
    LET old_line == Val(old.line)
        current_line == Val(current.line)
    IN  [minutes |-> minutes,
         absolute |-> Some(current_line - old_line),
         percent |-> Some(PercentChange(old_line, current_line)),
         old_line |-> Some(old_line),
         old_over_odds |-> old.over_odds, old_under_odds |-> old.under_odds,
         new_over_odds |-> current.over_odds, new_under_odds |-> current.under_odds]

Distance(a, b) == IF a < b THEN b - a ELSE a - b

\* the loop over reversed(book_snapshots[:-1]) from index i down: closest is the
\* index held so far (0: none) and min_diff its distance (None: timedelta.max)
RECURSIVE ClosestScan(_, _, _, _, _, _)
ClosestScan(times, i, current_time, target_time, closest, min_diff) ==
    IF i < 1 THEN closest
    ELSE IF times[i] > current_time
    THEN ClosestScan(times, i - 1, current_time, target_time, closest, min_diff)
    ELSE
    LET diff == Distance(times[i], target_time)
    IN  IF IsNone(min_diff) \/ diff < Val(min_diff)
        THEN ClosestScan(times, i - 1, current_time, target_time, i, Some(diff))
        ELSE IF times[i] < target_time THEN closest
        ELSE ClosestScan(times, i - 1, current_time, target_time, closest, min_diff)

\* book_snapshots: <<snapshot_time, the book's quote>> of the snapshots with a line
BookSnapshots(snapshots, book) ==
    LET HasLine(s) == ~IsNone(s.books[book].line)
        kept == SelectSeq(snapshots, HasLine)
    IN  [i \in 1..Len(kept) |-> [snapshot_time |-> kept[i].snapshot_time,
                                  quote |-> kept[i].books[book]]]

calculate_change_for_book_open_previous(book_snapshots, current_time, current, minutes) ==
    IF book_snapshots = <<>> THEN NullChange(minutes)
    ELSE IF minutes = 0
    THEN ChangeFrom(0, book_snapshots[IF Len(book_snapshots) > 1
                                      THEN Len(book_snapshots) - 1 ELSE 1].quote, current)
    ELSE
    LET times == [i \in 1..Len(book_snapshots) |-> book_snapshots[i].snapshot_time]
        closest_snap == ClosestScan(times, Len(times) - 1, current_time,
                                    current_time - minutes, 0, None)
    IN  IF closest_snap = 0 THEN NullChange(minutes)
        ELSE ChangeFrom(minutes, book_snapshots[closest_snap].quote, current)

calculate_change_for_book(book_snapshots, current_time, current, minutes) ==
    IF book_snapshots = <<>> THEN NullChange(minutes)
    ELSE IF minutes = 0
    THEN ChangeFrom(0, book_snapshots[1].quote, current)
    ELSE
    LET times == [i \in 1..Len(book_snapshots) |-> book_snapshots[i].snapshot_time]
        closest_snap == ClosestScan(times, Len(times) - 1, current_time,
                                    current_time - minutes, 0, None)
    IN  IF closest_snap = 0 THEN NullChange(minutes)
        ELSE ChangeFrom(minutes, book_snapshots[closest_snap].quote, current)

\* `if not current_line_value`: a missing line and a line of 0 both skip the book
HasCurrentLine(latest, book) ==
    ~IsNone(latest.books[book].line) /\ Val(latest.books[book].line) # 0

BookData(snapshots, book) ==
    LET latest == snapshots[Len(snapshots)]
        current == latest.books[book]
        book_snapshots == BookSnapshots(snapshots, book)
    IN  [current_line |-> Val(current.line),
         current_over_odds |-> current.over_odds,
         current_under_odds |-> current.under_odds,
         changes |-> [w \in Windows |->
             calculate_change_for_book(book_snapshots, latest.snapshot_time, current, w)]]

\* the item of a non-empty group: each book with a current line, under its name;
\* <<>> when the item is not added for want of consensus data
DashboardItem(snapshots) ==
    LET latest == snapshots[Len(snapshots)]
        present == {book \in sportsbooks : HasCurrentLine(latest, book)}
    IN  IF "consensus" \in present
        THEN Some([snapshot_time |-> latest.snapshot_time,
                   books |-> [book \in present |-> BookData(snapshots, book)]])
        ELSE None

\* observation times of the group and what one book may quote at one
DashTimes == {1380, 1433, 1437, 1440}

NoQuote == [line |-> None, over_odds |-> None, under_odds |-> None]

ConsensusQuotes ==
    { NoQuote,
      [line |-> Some(525), over_odds |-> Some(-110), under_odds |-> Some(-110)],
      [line |-> Some(460), over_odds |-> Some(-115), under_odds |-> Some(-105)],
      [line |-> Some(0), over_odds |-> None, under_odds |-> None] }

DraftkingsQuotes ==
    { NoQuote,
      [line |-> Some(525), over_odds |-> Some(-110), under_odds |-> Some(-110)],
      [line |-> Some(455), over_odds |-> Some(-120), under_odds |-> None] }

\* a scrape saves the group's next snapshot
Observe(t, consensus, draftkings) ==
    /\ t > LastTime(wSnapshots)
    /\ wSnapshots' = Append(wSnapshots,
          [snapshot_time |-> t,
           books |-> [book \in sportsbooks |->
                         IF book = "consensus" THEN consensus ELSE draftkings]])
    /\ wItem' = None
    /\ UNCHANGED NotDash

\* get_dashboard_data computes the group's item
Aggregate ==
    /\ wSnapshots # <<>>
    /\ wItem' = DashboardItem(wSnapshots)
    /\ UNCHANGED wSnapshots
    /\ UNCHANGED NotDash

DashNext ==
    \/ \E t \in DashTimes, c \in ConsensusQuotes, d \in DraftkingsQuotes : Observe(t, c, d)
    \/ Aggregate

SpecDash == Init /\ [][DashNext]_vars

\* the times at which the book has an observation
BookTimes(book) ==
    {wSnapshots[i].snapshot_time : i \in {j \in 1..Len(wSnapshots) :
                                            ~IsNone(wSnapshots[j].books[book].line)}}

\* C3: for every bookmaker and fixed window w the delta is null (absolute,
\* percent and old_line) whenever the bookmaker has no observation at or
\* before now - w; and a series of just two observations one hour apart has
\* a null 5-minute absolute.
C3_NoBaselineNoDelta ==
    ~IsNone(wItem) =>
        \A book \in DOMAIN Val(wItem).books :
            /\ \A w \in Windows \ {0} :
                  (\A t \in BookTimes(book) : t > Val(wItem).snapshot_time - w) =>
                      LET change == Val(wItem).books[book].changes[w]
                      IN  /\ IsNone(change.absolute)
                          /\ IsNone(change.percent)
                          /\ IsNone(change.old_line)
            /\ BookTimes(book) = {Val(wItem).snapshot_time - 60, Val(wItem).snapshot_time}
                  => IsNone(Val(wItem).books[book].changes[5].absolute)

\* the book's observations before its latest that lie at or before the time
QualifyingBefore(book, time) ==
    LET book_snapshots == BookSnapshots(wSnapshots, book)
    IN  {i \in 1..(Len(book_snapshots) - 1) : book_snapshots[i].snapshot_time <= time}

\* C11: for a fixed window w the baseline of a book is its observation at or
\* before now - w that is closest to now - w (the latest such one); an
\* observation later than now - w is never the baseline.
C11_BaselineAtOrBeforeTarget ==
    ~IsNone(wItem) =>
        \A book \in DOMAIN Val(wItem).books : \A w \in Windows \ {0} :
            LET book_snapshots == BookSnapshots(wSnapshots, book)
                qualifying == QualifyingBefore(book, Val(wItem).snapshot_time - w)
                baseline == CHOOSE i \in qualifying : \A j \in qualifying : j <= i
            IN  qualifying # {} =>
                    Val(wItem).books[book].changes[w] =
                        ChangeFrom(w, book_snapshots[baseline].quote,
                                   book_snapshots[Len(book_snapshots)].quote)

\* C12: an item has an entry for every book with a line observation in the
\* series, and the entry's current line and odds are those of the book's most
\* recent observation, also when the latest snapshot has no data for the book.
C12_EntryForEveryObservedBook ==
    ~IsNone(wItem) =>
        \A book \in sportsbooks :
            LET book_snapshots == BookSnapshots(wSnapshots, book)
                current == book_snapshots[Len(book_snapshots)].quote
            IN  book_snapshots # <<>> =>
                    /\ book \in DOMAIN Val(wItem).books
                    /\ Val(wItem).books[book].current_line = Val(current.line)
                    /\ Val(wItem).books[book].current_over_odds = current.over_odds
                    /\ Val(wItem).books[book].current_under_odds = current.under_odds

\* the snapshots of the series in which the book has a line, by index
Observations(book) == {i \in 1..Len(wSnapshots) : ~IsNone(wSnapshots[i].books[book].line)}

\* the book's earliest observation in the series
OpenOf(book) ==
    wSnapshots[CHOOSE i \in Observations(book) : \A j \in Observations(book) : i <= j].books[book]

\* C22: the since_open delta of a book in the item is computed against the
\* book's own earliest observation with a line in the series, whatever the
\* series' earliest snapshot holds; a book with exactly one observation has
\* since_open absolute 0 and percent 0.
C22_SinceOpenOwnEarliest ==
    ~IsNone(wItem) =>
        \A book \in DOMAIN Val(wItem).books :
            LET change == Val(wItem).books[book].changes[0]
                current_line == Val(wItem).books[book].current_line
                open == OpenOf(book)
            IN  /\ change.old_line = open.line
                /\ change.old_over_odds = open.over_odds
                /\ change.old_under_odds = open.under_odds
                /\ change.absolute = Some(current_line - Val(open.line))
                /\ Val(open.line) # 0 =>
                      Val(change.percent)[1] * Val(open.line) =
                          (current_line - Val(open.line)) * 100 * Val(change.percent)[2]
                /\ Cardinality(Observations(book)) = 1 =>
                      /\ change.absolute = Some(0)
                      /\ Val(change.percent)[1] = 0

\* draftkings joined the series after consensus and has moved since its own
\* open, which is neither its previous observation nor the line consensus
\* opened at
C22_Witness ==
    /\ ~IsNone(wItem)
    /\ "draftkings" \in DOMAIN Val(wItem).books
    /\ Cardinality(Observations("draftkings")) >= 3
    /\ \E i \in Observations("consensus") : \A j \in Observations("draftkings") : i < j
    /\ OpenOf("consensus").line # OpenOf("draftkings").line
    /\ Val(wItem).books["draftkings"].changes[0].absolute # Some(0)
    /\ Val(wItem).books["draftkings"].changes[0].old_line = OpenOf("draftkings").line

\* the item holds a book with exactly one observation
C22_WitnessSingle ==
    /\ ~IsNone(wItem)
    /\ Len(wSnapshots) >= 2
    /\ "draftkings" \in DOMAIN Val(wItem).books
    /\ Cardinality(Observations("draftkings")) = 1
    /\ Val(wItem).books["draftkings"].changes[0].absolute = Some(0)

\* the lines observed in the series
ObservedLines ==
    {Val(wSnapshots[i].books[book].line) : i \in Observations("consensus"), book \in {"consensus"}}
        \cup {Val(wSnapshots[i].books[book].line) : i \in Observations("draftkings"), book \in {"draftkings"}}

\* C25: whenever the baseline line is zero the percent change is 0 and its
\* quotient has a divisor other than zero, in calculate_movement and in every
\* window delta of an item; the absolute change is still final - baseline.
C25_ZeroBaselinePercentZero ==
    /\ \A final_line \in ObservedLines :
          LET mv == calculate_movement(0, final_line)
          IN  /\ mv.absolute = final_line
              /\ mv.pct[1] = 0
              /\ mv.pct[2] > 0
    /\ ~IsNone(wItem) =>
          \A book \in DOMAIN Val(wItem).books : \A w \in Windows :
              LET change == Val(wItem).books[book].changes[w]
              IN  ~IsNone(change.old_line) =>
                      /\ Val(change.percent)[2] > 0
                      /\ change.absolute =
                            Some(Val(wItem).books[book].current_line - Val(change.old_line))
                      /\ Val(change.old_line) = 0 => Val(change.percent)[1] = 0

\* consensus opened at a line of 0 and stands at another line now: its
\* since_open delta and a fixed window's delta have the baseline 0
C25_Witness ==
    /\ ~IsNone(wItem)
    /\ OpenOf("consensus").line = Some(0)
    /\ Val(wItem).books["consensus"].current_line # 0
    /\ Val(wItem).books["consensus"].changes[0].old_line = Some(0)
    /\ Val(wItem).books["consensus"].changes[0].percent = Some(<<0, 1>>)
    /\ \E w \in Windows \ {0} :
          /\ Val(wItem).books["consensus"].changes[w].old_line = Some(0)
          /\ Val(wItem).books["consensus"].changes[w].absolute =
                Some(Val(wItem).books["consensus"].current_line)

\* the series without any data of the book
WithoutBook(snapshots, book) ==
    [i \in 1..Len(snapshots) |->
        [snapshots[i] EXCEPT !.books = [b \in sportsbooks |->
            IF b = book THEN NoQuote ELSE snapshots[i].books[b]]]]

\* C26: the aggregation of a series yields an item if and only if consensus
\* has a line in the series' latest snapshot, and yields an item exactly when
\* it does for the same series without the data of the other bookmaker; an
\* item that was computed is the one of the series.
C26_ItemIffConsensusCurrent ==
    wSnapshots # <<>> =>
        /\ ~IsNone(DashboardItem(wSnapshots)) <=>
              ~IsNone(wSnapshots[Len(wSnapshots)].books["consensus"].line)
        /\ ~IsNone(DashboardItem(wSnapshots)) <=>
              ~IsNone(DashboardItem(WithoutBook(wSnapshots, "draftkings")))
        /\ ~IsNone(wItem) => wItem = DashboardItem(wSnapshots)

-----------------------------------------------------------------------------
\* The dashboard cache (routes/props.py) and the scrape job (scheduler/jobs.py).
\* The API and the scheduler share one event loop; get_dashboard_data has no
\* await inside, so one call of it is one step.  A dashboard payload is named
\* by what it was computed from: its arguments, the snapshot batches stored,
\* the invalidations before it and the time of the computation.

CACHE_TTL_SECONDS == 30

MaxClock == 45

MaxScrapes == 1

ClockSteps == {15}

\* (prop_type, hours_back) a caller may ask for; passing_yards is no PropType
DashboardArgs ==
    { <<None, 48>>, <<Some(RUSHING_YARDS), 48>>, <<None, 24>>,
      <<Some("passing_yards"), 48>> }

ValidPropType(prop_type) ==
    IsNone(prop_type) \/ Val(prop_type) \in {RUSHING_YARDS, RECEIVING_YARDS}

CacheHitAnyHours(cache, prop_type, hours_back, current_time) ==
    /\ ~IsNone(cache.data)
    /\ cache.prop_type = prop_type
    /\ current_time - cache.timestamp < CACHE_TTL_SECONDS

\* the cache check of get_dashboard_data
CacheHit(cache, prop_type, hours_back, current_time) ==
    /\ ~IsNone(cache.data)
    /\ cache.prop_type = prop_type
    /\ cache.hours_back = Some(hours_back)
    /\ current_time - cache.timestamp < CACHE_TTL_SECONDS

ComputeDashboard(prop_type, hours_back, stored, invalidations, current_time) ==
    [prop_type |-> prop_type, hours_back |-> hours_back, stored |-> stored,
     invalidations |-> invalidations, at |-> current_time]

\* the cache after the call, the payload returned (<<>> when the call raises
\* HTTPException 400) and whether the payload was computed by this call
get_dashboard_data(cache, prop_type, hours_back, current_time, stored, invalidations) ==
    IF CacheHit(cache, prop_type, hours_back, current_time)
    THEN [cache |-> cache, data |-> cache.data, computed |-> FALSE]
    ELSE IF ~ValidPropType(prop_type)
    THEN [cache |-> cache, data |-> None, computed |-> FALSE]
    ELSE LET result == ComputeDashboard(prop_type, hours_back, stored,
                                        invalidations, current_time)
         IN  [cache |-> [data |-> Some(result), timestamp |-> current_time,
                         prop_type |-> prop_type, hours_back |-> Some(hours_back)],
              data |-> Some(result), computed |-> TRUE]

invalidate_dashboard_cache == EmptyCache

\* the reader's GET /dashboard request arrives and waits for the event loop
Request(r, args) ==
    /\ cReaders[r].pc = "idle"
    /\ \A q \in Readers : q < r => cReaders[q].pc # "idle"
    /\ cReaders' = [cReaders EXCEPT ![r] =
          [IdleReader EXCEPT !.pc = "called",
                             !.prop_type = args[1],
                             !.hours_back = args[2]]]
    /\ UNCHANGED <<cCache, cClock, cStored, cInvalidations, cJob>>
    /\ UNCHANGED NotCache

\* the readers whose call for the same key waits for the event loop with r's
Waiting(r) ==
    {q \in Readers \ {r} : /\ cReaders[q].pc = "called"
                            /\ cReaders[q].prop_type = cReaders[r].prop_type
                            /\ cReaders[q].hours_back = cReaders[r].hours_back}

\* the event loop runs the request's handler
get_dashboard_view(r) ==
    /\ cReaders[r].pc = "called"
    /\ LET out == get_dashboard_data(cCache, cReaders[r].prop_type,
                                     cReaders[r].hours_back, cClock,
                                     cStored, cInvalidations)
       IN  /\ cCache' = out.cache
           /\ cReaders' = [cReaders EXCEPT ![r].pc = "done",
                                           ![r].result = out.data,
                                           ![r].computed = out.computed,
                                           ![r].waiting = Waiting(r),
                                           ![r].at = cClock,
                                           ![r].invalidations = cInvalidations]
    /\ UNCHANGED <<cClock, cStored, cInvalidations, cJob>>
    /\ UNCHANGED NotCache

\* scrape_all_props starts and awaits the scrape
ScrapeStart ==
    /\ cJob = "idle"
    /\ cStored < MaxScrapes
    /\ cJob' = "scraping"
    /\ UNCHANGED <<cCache, cClock, cStored, cInvalidations, cReaders>>
    /\ UNCHANGED NotCache

\* save_snapshots commits the batch; the job then awaits the client's close
ScrapeSave ==
    /\ cJob = "scraping"
    /\ cStored' = cStored + 1
    /\ cJob' = "saved"
    /\ UNCHANGED <<cCache, cClock, cInvalidations, cReaders>>
    /\ UNCHANGED NotCache

\* nothing to scrape, or the scrape or the save raised: snapshots_saved stays False
ScrapeSkip ==
    /\ cJob = "scraping"
    /\ cJob' = "idle"
    /\ UNCHANGED <<cCache, cClock, cStored, cInvalidations, cReaders>>
    /\ UNCHANGED NotCache

\* snapshots_saved: invalidate, then broadcast_dashboard_update, which computes
\* the default payload when a WebSocket client is connected
ScrapeInvalidateBroadcast(clients) ==
    /\ cJob = "saved"
    /\ cInvalidations' = cInvalidations + 1
    /\ cCache' = IF clients
                 THEN get_dashboard_data(invalidate_dashboard_cache, None, 48, cClock,
                                         cStored, cInvalidations + 1).cache
                 ELSE invalidate_dashboard_cache
    /\ cJob' = "idle"
    /\ UNCHANGED <<cClock, cStored, cReaders>>
    /\ UNCHANGED NotCache

Tick(seconds) ==
    /\ cClock + seconds <= MaxClock
    /\ cClock' = cClock + seconds
    /\ UNCHANGED <<cCache, cStored, cInvalidations, cReaders, cJob>>
    /\ UNCHANGED NotCache

CacheNext ==
    \/ \E r \in Readers, args \in DashboardArgs : Request(r, args)
    \/ \E r \in Readers : get_dashboard_view(r)
    \/ ScrapeStart
    \/ ScrapeSave
    \/ ScrapeSkip
    \/ \E clients \in BOOLEAN : ScrapeInvalidateBroadcast(clients)
    \/ \E seconds \in ClockSteps : Tick(seconds)

SpecCache == Init /\ [][CacheNext]_vars

\* the readers that were answered with a payload
Answered == {r \in Readers : cReaders[r].pc = "done" /\ ~IsNone(cReaders[r].result)}

\* C7: a reader is served the cached payload only if the payload was computed
\* for the prop type and lookback the reader asked for and was stored less
\* than CACHE_TTL_SECONDS before; otherwise its payload was computed by its
\* own call, from the snapshots stored at that time.
C7_CachedOnlyForSameKeyWithinTTL ==
    \A r \in Answered :
        LET reader == cReaders[r]
            data == Val(reader.result)
        IN  /\ data.prop_type = reader.prop_type
            /\ data.hours_back = reader.hours_back
            /\ ~reader.computed => /\ data.at <= reader.at
                                   /\ reader.at - data.at < CACHE_TTL_SECONDS
            /\ reader.computed => data.at = reader.at

\* a reader was served a cached payload of positive age and, at the same
\* time, a reader asking for another key had its payload computed
C7_Witness ==
    \E r1, r2 \in Answered :
        /\ ~cReaders[r1].computed
        /\ Val(cReaders[r1].result).at < cReaders[r1].at
        /\ cReaders[r2].computed
        /\ cReaders[r2].at = cReaders[r1].at
        /\ cReaders[r2].prop_type = cReaders[r1].prop_type
        /\ cReaders[r2].hours_back # cReaders[r1].hours_back

\* C5: of the readers that call concurrently while the cache misses for
\* their key, each is answered with a complete payload and, with no expiry
\* and no invalidation in between, only one of them computes it; the cache
\* entry is never partly populated.
C5_OneRecomputationPerMiss ==
    /\ \A r \in Readers :
          (cReaders[r].pc = "done" /\ ValidPropType(cReaders[r].prop_type))
              => r \in Answered
    /\ ~IsNone(cCache.data) =>
          /\ Val(cCache.data).prop_type = cCache.prop_type
          /\ Some(Val(cCache.data).hours_back) = cCache.hours_back
          /\ Val(cCache.data).at = cCache.timestamp
    /\ \A r1, r2 \in Answered :
          ( /\ cReaders[r1].computed
            /\ r2 \in cReaders[r1].waiting
            /\ cReaders[r2].at = cReaders[r1].at
            /\ cReaders[r2].invalidations = cReaders[r1].invalidations )
          => ~cReaders[r2].computed

\* a step that neither invalidates the cache nor lets its entry expire
KeepsEntry ==
    /\ ~IsNone(cCache.data)
    /\ cInvalidations' = cInvalidations
    /\ cClock' - cCache.timestamp < CACHE_TTL_SECONDS

\* C6: the cache is invalidated only by the job that has committed its
\* snapshots, before the job's broadcast computes; no call after the
\* invalidation is answered with a payload computed before it; and only
\* invalidation and expiry end the serving of a cached payload.
C6_InvalidatedAfterSaveOnly ==
    /\ [](\A r \in Answered :
             Val(cReaders[r].result).invalidations = cReaders[r].invalidations)
    /\ [](~IsNone(cCache.data) => Val(cCache.data).invalidations = cInvalidations)
    /\ [][cInvalidations' # cInvalidations => (cJob = "saved" /\ cJob' = "idle")]_vars
    /\ [][KeepsEntry => cCache'.data = cCache.data]_vars

-----------------------------------------------------------------------------
\* The websocket clients and broadcast_dashboard_update (api/main.py).  The
\* handlers of /ws/dashboard and the broadcast are coroutines of one event
\* loop: a handler runs only while the broadcast awaits a send_json.

\* the WebSocket objects
Websockets == {"ws1", "ws2", "ws3"}

\* websocket_dashboard up to its first receive_text: accept and add.  The
\* slot of the new member lies before or after the position of an iterator
\* of the set, which so has or has not yet to yield it
Connect(websocket) ==
    /\ websocket \notin kOpened
    /\ kOpened' = kOpened \cup {websocket}
    /\ active_websockets' = active_websockets \cup {websocket}
    /\ \/ UNCHANGED kIterator
       \/ /\ kPc = "sending"
          /\ kIterator' = [kIterator EXCEPT !.pending = @ \cup {websocket}]
    /\ UNCHANGED <<kPc, kCurrent, disconnected, kSent, kStable>>
    /\ UNCHANGED NotBroadcast

\* websocket_dashboard from WebSocketDisconnect on: discard in finally
Disconnect(websocket) ==
    /\ websocket \in active_websockets
    /\ active_websockets' = active_websockets \ {websocket}
    /\ kIterator' = [kIterator EXCEPT !.pending = @ \ {websocket}]
    /\ kStable' = kStable \ {websocket}
    /\ UNCHANGED <<kOpened, kPc, kCurrent, disconnected, kSent>>
    /\ UNCHANGED NotBroadcast

\* broadcast_dashboard_update up to its first await of send_json; it returns
\* at once when there is no client
BroadcastStart ==
    /\ kPc = "idle"
    /\ active_websockets # {}
    /\ \E websocket \in active_websockets :
          /\ kIterator' = [used |-> Cardinality(active_websockets),
                           pending |-> active_websockets \ {websocket}]
          /\ kCurrent' = Some(websocket)
    /\ kPc' = "sending"
    /\ disconnected' = {}
    /\ kSent' = {}
    /\ kStable' = active_websockets
    /\ UNCHANGED <<active_websockets, kOpened>>
    /\ UNCHANGED NotBroadcast

\* send_json returns or raises, and the loop asks its iterator for the next
\* websocket: the iterator raises RuntimeError when the size of the set is
\* not the one it was made with, which the outer except catches; at the end
\* of the loop the disconnected are discarded
SendCompletes(ok) ==
    /\ kPc = "sending"
    /\ kSent' = IF ok THEN kSent \cup {Val(kCurrent)} ELSE kSent
    /\ disconnected' = IF ok THEN disconnected ELSE disconnected \cup {Val(kCurrent)}
    /\ IF Cardinality(active_websockets) # kIterator.used
       THEN /\ kPc' = "failed"
            /\ kCurrent' = None
            /\ UNCHANGED <<active_websockets, kIterator>>
       ELSE IF kIterator.pending = {}
       THEN /\ kPc' = "done"
            /\ kCurrent' = None
            /\ active_websockets' = active_websockets \ disconnected'
            /\ UNCHANGED kIterator
       ELSE /\ \E websocket \in kIterator.pending :
                  /\ kCurrent' = Some(websocket)
                  /\ kIterator' = [kIterator EXCEPT !.pending = @ \ {websocket}]
            /\ kPc' = "sending"
            /\ UNCHANGED active_websockets
    /\ UNCHANGED <<kOpened, kStable>>
    /\ UNCHANGED NotBroadcast

\* the broadcast has returned to the scrape job
BroadcastReturn ==
    /\ kPc \in {"done", "failed"}
    /\ kPc' = "idle"
    /\ kIterator' = NoIterator
    /\ disconnected' = {}
    /\ kSent' = {}
    /\ kStable' = {}
    /\ UNCHANGED <<active_websockets, kOpened, kCurrent>>
    /\ UNCHANGED NotBroadcast

BroadcastNext ==
    \/ \E websocket \in Websockets : Connect(websocket)
    \/ \E websocket \in Websockets : Disconnect(websocket)
    \/ BroadcastStart
    \/ \E ok \in BOOLEAN : SendCompletes(ok)
    \/ BroadcastReturn

SpecBroadcast == Init /\ [][BroadcastNext]_vars

\* C28: when a broadcast has ended, every websocket that was connected for
\* the whole of it has been sent the data or has failed its send, whatever
\* connected or disconnected meanwhile; the websockets whose send failed are
\* no longer in active_websockets, and the others connected throughout are.
C28_BroadcastReachesEveryClient ==
    kPc \in {"done", "failed"} =>
        /\ kStable \subseteq (kSent \cup disconnected)
        /\ disconnected \cap active_websockets = {}
        /\ (kStable \ disconnected) \subseteq active_websockets

====
